---- MODULE Spec2Model ----
(***************************************************************************)
(* Panorama decode engine: the decoder client (request table, promises),   *)
(* the decoder worker (message handler, size policy) and the message       *)
(* channel between them.                                                   *)
(***************************************************************************)
EXTENDS Integers, Sequences, FiniteSets, TLC

\* Number of decode() calls explored.
MaxRequests == 3

\* Request ids the caller may pass to decode().
Ids == {"a", "b"}

Seqs == 1..MaxRequests

\* What a request carries besides its id: format, the file behind `buffer`
\* (its compression and where, if anywhere, decoding it throws) and the
\* target kind.  fault "header" makes readMetadata throw, fault "pixels"
\* makes the pixel decoder throw.
Payloads ==
  { [format |-> "hdr", compression |-> "rle",  fault |-> "none",   target |-> "rgb16f"],
    [format |-> "hdr", compression |-> "rle",  fault |-> "header", target |-> "rgba8"],
    [format |-> "exr", compression |-> "zip",  fault |-> "none",   target |-> "rgba8"],
    [format |-> "exr", compression |-> "zip",  fault |-> "pixels", target |-> "rgb16f"] }

VARIABLES
  pending,     \* PanoramaDecoderClient.pending: id -> promise number, 0 = no entry
  promise,     \* the promise returned by the n-th decode() call
  nextSeq,     \* number of the next decode() call
  toWorker,    \* messages posted to the worker, not yet dispatched
  suspended,   \* worker handlers waiting on `await decompressDeflate(...)`
  toClient,    \* messages posted by the worker, not yet dispatched to the client
  terminated,  \* worker.terminate() has been called
  answered,    \* number of messages the worker posted for the n-th request
  sizeIn,      \* size policy: source metadata, quality and maxTextureSize of a request
  sizeOut,     \* size policy: the dimensions the worker puts in the result
  arg,         \* decoders and codecs: the arguments of the call under examination
  ret          \* decoders and codecs: the call's locals while it runs, then its outcome

protoVars == <<pending, promise, nextSeq, toWorker, suspended, toClient, terminated, answered>>
sizeVars == <<sizeIn, sizeOut>>
callVars == <<arg, ret>>
vars == <<protoVars, sizeVars, callVars>>

\* No call is under examination / the call has not been made yet.
NoCall == [called |-> FALSE]

\* The value of a promise that is not settled.
NoValue == [unsettled |-> TRUE]

\* new Error(message)
Error(message) == [message |-> message]

NoPromise == [id |-> "", state |-> "none", value |-> NoValue, by |-> 0, calls |-> 0]

\* resolve()/reject() of a promise: the first call settles it, later calls
\* have no effect on its state.  `by` is the number of the request whose
\* worker response caused the call, 0 when the client itself rejected.
Settle(p, state, value, by) ==
  IF p.state = "pending"
    THEN [p EXCEPT !.state = state, !.value = value, !.by = by, !.calls = @ + 1]
    ELSE [p EXCEPT !.calls = @ + 1]

ProtoInit ==
  /\ pending = [i \in Ids |-> 0]
  /\ promise = [s \in Seqs |-> NoPromise]
  /\ nextSeq = 1
  /\ toWorker = <<>>
  /\ suspended = {}
  /\ toClient = <<>>
  /\ terminated = FALSE
  /\ answered = [s \in Seqs |-> 0]

\* decode() that registers the new entry without rejecting the one it replaces.
decodeNoReject(id, payload) ==
  /\ nextSeq <= MaxRequests
  /\ promise' = [promise EXCEPT ![nextSeq] =
                   [NoPromise EXCEPT !.id = id, !.state = "pending"]]
  /\ pending' = [pending EXCEPT ![id] = nextSeq]
  /\ toWorker' = Append(toWorker, [id |-> id, seq |-> nextSeq, payload |-> payload])
  /\ nextSeq' = nextSeq + 1
  /\ UNCHANGED <<suspended, toClient, terminated, answered, sizeVars, callVars>>

\* PanoramaDecoderClient.decode(request)
decode(id, payload) ==
  /\ nextSeq <= MaxRequests
  /\ LET existing == pending[id]
         rejected == IF existing # 0
                       THEN [promise EXCEPT ![existing] =
                               Settle(@, "rejected", Error("Decode request replaced"), 0)]
                       ELSE promise
     IN /\ promise' = [rejected EXCEPT ![nextSeq] =
                         [NoPromise EXCEPT !.id = id, !.state = "pending"]]
        /\ pending' = [pending EXCEPT ![id] = nextSeq]
        /\ toWorker' = Append(toWorker, [id |-> id, seq |-> nextSeq, payload |-> payload])
  /\ nextSeq' = nextSeq + 1
  /\ UNCHANGED <<suspended, toClient, terminated, answered, sizeVars, callVars>>

\* The test `'message' in data && !('kind' in data)` of the client's onmessage.
IsErrorMessage(data) == "message" \in DOMAIN data /\ ~("kind" \in DOMAIN data)

\* onmessage that settles the entry and leaves it in the table.
onmessageKeepsEntry ==
  /\ toClient # <<>>
  /\ LET data == Head(toClient)
         entry == pending[data.id]
     IN IF entry = 0
          THEN UNCHANGED <<pending, promise>>
          ELSE /\ UNCHANGED pending
               /\ promise' = [promise EXCEPT ![entry] =
                                IF IsErrorMessage(data)
                                  THEN Settle(@, "rejected", Error(data.message), data.re.seq)
                                  ELSE Settle(@, "fulfilled", data, data.re.seq)]
  /\ toClient' = Tail(toClient)
  /\ UNCHANGED <<nextSeq, toWorker, suspended, terminated, answered, sizeVars, callVars>>

\* PanoramaDecoderClient's worker.onmessage: one response is dispatched.
onmessage ==
  /\ toClient # <<>>
  /\ LET data == Head(toClient)
         entry == pending[data.id]
     IN IF entry = 0
          THEN UNCHANGED <<pending, promise>>
          ELSE /\ pending' = [pending EXCEPT ![data.id] = 0]
               /\ promise' = [promise EXCEPT ![entry] =
                                IF IsErrorMessage(data)
                                  THEN Settle(@, "rejected", Error(data.message), data.re.seq)
                                  ELSE Settle(@, "fulfilled", data, data.re.seq)]
  /\ toClient' = Tail(toClient)
  /\ UNCHANGED <<nextSeq, toWorker, suspended, terminated, answered, sizeVars, callVars>>

\* terminate() without `this.pending.clear()`.
terminateKeepsTable ==
  /\ promise' = [s \in Seqs |->
                   IF \E i \in Ids : pending[i] = s
                     THEN Settle(promise[s], "rejected", Error("Decoder terminated"), 0)
                     ELSE promise[s]]
  /\ terminated' = TRUE
  /\ toWorker' = <<>>
  /\ suspended' = {}
  /\ toClient' = <<>>
  /\ UNCHANGED <<pending, nextSeq, answered, sizeVars, callVars>>

\* PanoramaDecoderClient.terminate().  worker.terminate() discards the
\* worker's queued tasks, aborts its running script and empties the message
\* queue of the port the client listens on.
terminate ==
  /\ promise' = [s \in Seqs |->
                   IF \E i \in Ids : pending[i] = s
                     THEN Settle(promise[s], "rejected", Error("Decoder terminated"), 0)
                     ELSE promise[s]]
  /\ pending' = [i \in Ids |-> 0]
  /\ terminated' = TRUE
  /\ toWorker' = <<>>
  /\ suspended' = {}
  /\ toClient' = <<>>
  /\ UNCHANGED <<nextSeq, answered, sizeVars, callVars>>

\* The message of the error thrown while handling a request with a fault.
ErrorMessage(payload) ==
  CASE payload.format = "hdr" /\ payload.fault = "header" -> "Unsupported HDR format"
    [] payload.format = "hdr" /\ payload.fault = "pixels" -> "Unexpected end of HDR RLE"
    [] payload.format = "exr" /\ payload.fault = "header" -> "Invalid EXR signature"
    [] OTHER -> "Invalid EXR chunk size"

\* A handler whose pixel decode swallows its error and posts what it has.
AnswerPartial(req) ==
  IF req.payload.fault # "header"
    THEN [id |-> req.id, format |-> req.payload.format,
          kind |-> req.payload.target, re |-> req]
    ELSE [id |-> req.id, message |-> ErrorMessage(req.payload), re |-> req]

\* The one message the worker's handler posts for a request: the result
\* built at the end of the try block, or the error built in the catch
\* block.  `re` records which request the message answers; the client
\* never reads it.
Answer(req) ==
  IF req.payload.fault = "none"
    THEN [id |-> req.id, format |-> req.payload.format,
          kind |-> req.payload.target, re |-> req]
    ELSE [id |-> req.id, message |-> ErrorMessage(req.payload), re |-> req]

\* Whether handling the request reaches `await decompressDeflate(...)`: the
\* header parses and the blocks are deflate-compressed.  Every other await
\* of the handler is on a value that is already available and resumes
\* before the next message is dispatched.
Awaits(payload) ==
  payload.format = "exr" /\ payload.compression # "none" /\ payload.fault # "header"

\* The worker's self.onmessage, from dispatch of the next request to either
\* its posted message or its first wait on the inflate stream.
workerOnMessage ==
  /\ ~terminated
  /\ toWorker # <<>>
  /\ LET req == Head(toWorker)
     IN /\ toWorker' = Tail(toWorker)
        /\ IF Awaits(req.payload)
             THEN /\ suspended' = suspended \cup {req}
                  /\ UNCHANGED <<toClient, answered>>
             ELSE /\ toClient' = Append(toClient, Answer(req))
                  /\ answered' = [answered EXCEPT ![req.seq] = @ + 1]
                  /\ UNCHANGED suspended
  /\ UNCHANGED <<pending, promise, nextSeq, terminated, sizeVars, callVars>>

\* The inflate stream of a waiting handler delivers: the handler runs to
\* its posted message.  (Further compressed blocks wait again; nothing is
\* posted between two waits, so one wait stands for all of them.)
workerResume(req) ==
  /\ ~terminated
  /\ req \in suspended
  /\ suspended' = suspended \ {req}
  /\ toClient' = Append(toClient, Answer(req))
  /\ answered' = [answered EXCEPT ![req.seq] = @ + 1]
  /\ UNCHANGED <<pending, promise, nextSeq, toWorker, terminated, sizeVars, callVars>>

(***************************************************************************)
(* Size policy of the worker.  JavaScript numbers are IEEE-754 binary64;   *)
(* the policy divides, multiplies and rounds them, so the arithmetic is    *)
(* modelled bit by bit.  A positive double is [bits, exp]: 53 bits, most   *)
(* significant first and leading bit 1, standing for that integer times    *)
(* 2^exp.                                                                  *)
(***************************************************************************)
Max(a, b) == IF a >= b THEN a ELSE b
Min(a, b) == IF a <= b THEN a ELSE b

RECURSIVE ToBits(_)
ToBits(n) == IF n = 0 THEN <<>> ELSE ToBits(n \div 2) \o <<n % 2>>

RECURSIVE ToInt(_)
ToInt(bits) ==
  IF bits = <<>> THEN 0
  ELSE 2 * ToInt(SubSeq(bits, 1, Len(bits) - 1)) + bits[Len(bits)]

\* The integer `bits` plus one.
IncBits(bits) ==
  LET zeros == {i \in 1..Len(bits) : bits[i] = 0}
  IN IF zeros = {}
       THEN <<1>> \o [i \in 1..Len(bits) |-> 0]
       ELSE LET j == CHOOSE i \in zeros : \A z \in zeros : z <= i
            IN [i \in 1..Len(bits) |-> IF i < j THEN bits[i] ELSE IF i = j THEN 1 ELSE 0]

\* Round the integer `bits` (leading bit 1) times 2^exp to 53 significant
\* bits, to nearest, ties to even.
RoundToDouble(bits, exp) ==
  LET L == Len(bits)
  IN IF L <= 53
       THEN [bits |-> bits \o [i \in 1..(53 - L) |-> 0], exp |-> exp - (53 - L)]
       ELSE LET keep == SubSeq(bits, 1, 53)
                sticky == \E i \in 55..L : bits[i] = 1
                up == bits[54] = 1 /\ (sticky \/ keep[53] = 1)
                r == IF up THEN IncBits(keep) ELSE keep
            IN IF Len(r) = 54
                 THEN [bits |-> SubSeq(r, 1, 53), exp |-> exp + (L - 53) + 1]
                 ELSE [bits |-> r, exp |-> exp + (L - 53)]

\* The least k with a * 2^k >= b.
RECURSIVE NormShift(_, _)
NormShift(a, b) == IF a >= b THEN 0 ELSE 1 + NormShift(2 * a, b)

\* The 13 bits of a digit 0 <= d < 8192, most significant first.
DigitBits(d) == [i \in 1..13 |-> (d \div (2 ^ (13 - i))) % 2]

\* The double a / b for integers 0 < a < b < 2^17, by long division in
\* base 8192: the leading 1, four digits (52 bits), then a guard bit and a
\* sticky bit for the rounding.
FloatDiv(a, b) ==
  LET k == NormShift(a, b)
      r0 == a * (2 ^ k) - b
      r1 == (r0 * 8192) % b
      r2 == (r1 * 8192) % b
      r3 == (r2 * 8192) % b
      r4 == (r3 * 8192) % b
      guard == IF 2 * r4 >= b THEN 1 ELSE 0
      sticky == IF 2 * r4 - guard * b = 0 THEN 0 ELSE 1
  IN RoundToDouble(<<1>> \o DigitBits((r0 * 8192) \div b) \o DigitBits((r1 * 8192) \div b)
                        \o DigitBits((r2 * 8192) \div b) \o DigitBits((r3 * 8192) \div b)
                        \o <<guard, sticky>>,
                   0 - k - 54)

\* The bits of the product of a 53-bit mantissa and an integer
\* 1 <= w < 2^17, digit by digit in base 8192 from the low end.
MulBits(bits, w) ==
  LET Digit(j) == ToInt(SubSeq(bits, 13 * j - 11, 13 * j + 1))
      t4 == Digit(4) * w
      t3 == Digit(3) * w + t4 \div 8192
      t2 == Digit(2) * w + t3 \div 8192
      t1 == Digit(1) * w + t2 \div 8192
      t0 == bits[1] * w + t1 \div 8192
  IN ToBits(t0) \o DigitBits(t1 % 8192) \o DigitBits(t2 % 8192)
                \o DigitBits(t3 % 8192) \o DigitBits(t4 % 8192)

\* The double w * x for an integer 1 <= w < 2^17 and a double x.
FloatMulInt(w, x) == RoundToDouble(MulBits(x.bits, w), x.exp)

\* Math.round(x) for a double 0 < x < 2^31: the nearest integer, a tie
\* going up.
MathRound(x) ==
  LET n == 53 + x.exp
  IN IF n < 0 THEN 0
     ELSE ToInt(SubSeq(x.bits, 1, n)) + (IF n < 53 THEN x.bits[n + 1] ELSE 0)

chooseDecodeMaxDim(quality, maxTextureSize) ==
  LET base == IF quality = "low" THEN 1024
              ELSE IF quality = "medium" THEN 2048 ELSE 4096
  IN Max(256, Min(base, maxTextureSize))

\* computeDecodeSize with Math.floor in place of Math.round.
computeDecodeSizeFloor(meta, quality, maxTextureSize) ==
  LET maxDim == chooseDecodeMaxDim(quality, maxTextureSize)
      srcMax == Max(meta.width, meta.height)
      Scaled(n) == IF srcMax > maxDim THEN (n * maxDim) \div srcMax ELSE n
  IN [decodeWidth |-> Max(1, Scaled(meta.width)),
      decodeHeight |-> Max(1, Scaled(meta.height))]

\* computeDecodeSize that scales to maxDim also when the source is smaller.
computeDecodeSizeNoCap(meta, quality, maxTextureSize) ==
  LET maxDim == chooseDecodeMaxDim(quality, maxTextureSize)
      srcMax == Max(meta.width, meta.height)
      Scaled(n) == (2 * n * maxDim + srcMax) \div (2 * srcMax)
  IN [decodeWidth |-> Max(1, Scaled(meta.width)),
      decodeHeight |-> Max(1, Scaled(meta.height))]

computeDecodeSize(meta, quality, maxTextureSize) ==
  LET maxDim == chooseDecodeMaxDim(quality, maxTextureSize)
      srcMax == Max(meta.width, meta.height)
      Scaled(n) == IF srcMax > maxDim
                     THEN MathRound(FloatMulInt(n, FloatDiv(maxDim, srcMax)))
                     ELSE n
  IN [decodeWidth |-> Max(1, Scaled(meta.width)),
      decodeHeight |-> Max(1, Scaled(meta.height))]

\* Source dimensions and texture limits the size policy is explored on.
Dims == {1, 2, 3, 11, 76, 255, 256, 257, 440, 512, 1000, 1024, 1025, 1216, 2048, 4096, 8192}
TextureSizes == {1, 128, 255, 256, 300, 1000, 1024, 2048, 4096, 8192, 16384}
Qualities == {"low", "medium", "high"}

SizeInputs ==
  [width : Dims, height : Dims, quality : Qualities, maxTextureSize : TextureSizes]

NoSize == [width |-> 0, height |-> 0, decodeWidth |-> 0, decodeHeight |-> 0, maxDim |-> 0]

\* The part of the worker's self.onmessage between readMetadata and the
\* pixel decode: the size is computed and copied into the result's base.
\* maxDim is the intermediate value of computeDecodeSize.
workerSize ==
  /\ sizeOut = NoSize
  /\ LET meta == [width |-> sizeIn.width, height |-> sizeIn.height]
         size == computeDecodeSize(meta, sizeIn.quality, sizeIn.maxTextureSize)
     IN sizeOut' = [width |-> meta.width, height |-> meta.height,
                    decodeWidth |-> size.decodeWidth,
                    decodeHeight |-> size.decodeHeight,
                    maxDim |-> chooseDecodeMaxDim(sizeIn.quality, sizeIn.maxTextureSize)]
  /\ UNCHANGED <<protoVars, sizeIn, callVars>>

(***************************************************************************)
(* Half-float codec.  A JavaScript number is a record [class, sign, m, e]: *)
(* class "nan", "inf", "zero" or "finite", and for a finite number the     *)
(* value m * 2^e with m > 0.  The bits of a Float32Array element are a     *)
(* record [sign, exp, mantissa]; a half is the integer 0..65535.           *)
(***************************************************************************)
Number(class, sign, m, e) == [class |-> class, sign |-> sign, m |-> m, e |-> e]

\* floor(log2(m)) for m >= 1.
RECURSIVE Log2(_)
Log2(m) == IF m < 2 THEN 0 ELSE 1 + Log2(m \div 2)

\* a | b for 0 <= a, b < 2^16.
RECURSIVE BitOr(_, _)
BitOr(a, b) ==
  IF a = 0 THEN b
  ELSE IF b = 0 THEN a
  ELSE 2 * BitOr(a \div 2, b \div 2) + Max(a % 2, b % 2)

\* The number an element of a Float32Array with bits x reads as.
FromFloat32(x) ==
  IF x.exp = 255
    THEN (IF x.mantissa # 0 THEN Number("nan", x.sign, 0, 0) ELSE Number("inf", x.sign, 0, 0))
    ELSE IF x.exp = 0
      THEN (IF x.mantissa = 0 THEN Number("zero", x.sign, 0, 0)
            ELSE Number("finite", x.sign, x.mantissa, 0 - 149))
      ELSE Number("finite", x.sign, 8388608 + x.mantissa, x.exp - 150)

\* `floatView[0] = value` read back through intView: the float bits of a
\* number with m < 2^24 and e >= -149, which the store keeps exactly (every
\* value a Float32Array element or halfToFloat yields is one).  A NaN is
\* stored quiet, with the sign the engine carries in it.
Float32Store(value) ==
  CASE value.class = "nan"  -> [sign |-> value.sign, exp |-> 255, mantissa |-> 4194304]
    [] value.class = "inf"  -> [sign |-> value.sign, exp |-> 255, mantissa |-> 0]
    [] value.class = "zero" -> [sign |-> value.sign, exp |-> 0, mantissa |-> 0]
    [] OTHER ->
         LET p == Log2(value.m)
             E == p + value.e
         IN IF E > 127 THEN [sign |-> value.sign, exp |-> 255, mantissa |-> 0]
            ELSE IF E >= 0 - 126
              THEN [sign |-> value.sign, exp |-> E + 127,
                    mantissa |-> (value.m - 2 ^ p) * 2 ^ (23 - p)]
              ELSE [sign |-> value.sign, exp |-> 0,
                    mantissa |-> value.m * 2 ^ (value.e + 149)]

floatToHalf(value) ==
  LET x == Float32Store(value)
      sign == x.sign
      exp == x.exp - 127
  IN IF x.exp = 255
       THEN (IF x.mantissa # 0 THEN BitOr(sign * 32768, 32256)
             ELSE BitOr(sign * 32768, 31744))
     ELSE IF exp < 0 - 14
       THEN IF exp < 0 - 24 THEN sign * 32768
            ELSE LET mantissa == x.mantissa + 8388608
                     shift == 0 - exp - 14
                     halfMantissa == mantissa \div 2 ^ (shift + 13)
                     roundBit == (mantissa \div 2 ^ (shift + 12)) % 2
                 IN BitOr(sign * 32768, halfMantissa + roundBit)
     ELSE IF exp > 15 THEN BitOr(sign * 32768, 31744)
     ELSE LET halfExp == (exp + 15) % 32
              halfMantissa == x.mantissa \div 8192
              roundBit == (x.mantissa \div 4096) % 2
          IN BitOr(BitOr(sign * 32768, halfExp * 1024), halfMantissa + roundBit)

\* halfToFloat that drops the sign of a zero.
halfToFloatUnsignedZero(half) ==
  LET sign == (half \div 32768) % 2
      exp == (half \div 1024) % 32
      mantissa == half % 1024
  IN IF exp = 0
       THEN (IF mantissa = 0 THEN Number("zero", 0, 0, 0)
             ELSE Number("finite", sign, mantissa, 0 - 24))
     ELSE IF exp = 31
       THEN (IF mantissa = 0 THEN Number("inf", sign, 0, 0) ELSE Number("nan", 0, 0, 0))
     ELSE Number("finite", sign, 1024 + mantissa, exp - 25)

\* halfToFloat: Math.pow(2, -14) * (mantissa / 1024) is mantissa * 2^-24
\* and Math.pow(2, exp - 15) * (1 + mantissa / 1024) is (1024 + mantissa) *
\* 2^(exp - 25), both exact in doubles.
halfToFloat(half) ==
  LET sign == (half \div 32768) % 2
      exp == (half \div 1024) % 32
      mantissa == half % 1024
  IN IF exp = 0
       THEN (IF mantissa = 0 THEN Number("zero", sign, 0, 0)
             ELSE Number("finite", sign, mantissa, 0 - 24))
     ELSE IF exp = 31
       THEN (IF mantissa = 0 THEN Number("inf", sign, 0, 0) ELSE Number("nan", 0, 0, 0))
     ELSE Number("finite", sign, 1024 + mantissa, exp - 25)

\* The sign bit of a NaN is the engine's choice.
NaNSigns == {0, 1}
EngineNaN(value, s) == IF value.class = "nan" THEN [value EXCEPT !.sign = s] ELSE value

\* Float bit patterns the conversion is explored on: both signs, exponents
\* around every boundary of the half range, mantissas around every rounding
\* boundary.
FloatExps == {0, 1, 101, 102, 103, 104, 112, 113, 114, 126, 127, 128, 141, 142, 143, 254, 255}
FloatMantissas ==
  {0, 1, 4095, 4096, 4097, 8191, 8192, 12288, 4194304, 6291456,
   8380416, 8384511, 8384512, 8384513, 8388607}
Float32Patterns == [sign : {0, 1}, exp : FloatExps, mantissa : FloatMantissas]
Halves == 0..65535

HalfInputs ==
  [from : {"float"}, x : Float32Patterns] \cup [from : {"half"}, half : Halves]

\* halfToFloat(arg.half) is called.
callHalfToFloat ==
  /\ arg.from = "half"
  /\ ret = NoCall
  /\ \E s \in NaNSigns :
       ret' = [called |-> TRUE, value |-> EngineNaN(halfToFloat(arg.half), s), half |-> 0 - 1]
  /\ UNCHANGED <<protoVars, sizeVars, arg>>

\* floatToHalf is called, on the float with bits arg.x or on the number
\* halfToFloat returned.
callFloatToHalf ==
  /\ \/ arg.from = "float" /\ ret = NoCall
     \/ arg.from = "half" /\ ret # NoCall /\ ret.half = 0 - 1
  /\ LET value == IF arg.from = "float" THEN FromFloat32(arg.x) ELSE ret.value
     IN ret' = [called |-> TRUE, value |-> value, half |-> floatToHalf(value)]
  /\ UNCHANGED <<protoVars, sizeVars, arg>>

(***************************************************************************)
(* The worker's conversion of the decoded floats to the requested target.  *)
(***************************************************************************)
\* value * 2^k >= n, for a finite positive number and an integer n >= 1.
AtLeast(value, k, n) ==
  IF value.e + k >= 0
    THEN value.m * 2 ^ (value.e + k) >= n
    ELSE value.m >= n * 2 ^ (0 - value.e - k)

\* linearToSRGB8 where the clamped tone-mapped value is exactly 0 or 1, so
\* that Math.pow(clamped, 1 / g) is exact: a non-finite input maps to 0, a
\* zero or negative input to x = 0 and every curve takes 0 to 0; the linear
\* curve is x itself and the ACES curve is above 1 from x = 8 on.
linearToSRGB8(linear, exposureStops, mode, gamma) ==
  CASE linear.class \in {"nan", "inf"} -> 0
    [] linear.class = "zero" \/ (linear.class = "finite" /\ linear.sign = 1) -> 0
    [] linear.class = "finite" /\ linear.sign = 0 /\ mode = "linear"
         /\ AtLeast(linear, exposureStops, 1) -> 255
    [] linear.class = "finite" /\ linear.sign = 0 /\ mode = "aces"
         /\ AtLeast(linear, exposureStops, 8) -> 255

packFloatRGBToHalf(rgb) == [i \in 1..Len(rgb) |-> floatToHalf(FromFloat32(rgb[i]))]

\* toneMapFloatRGBToRGBA8 without `out[j + 3] = 255`: alpha stays 0.
toneMapFloatRGBToRGBA8NoAlpha(rgb, target) ==
  [j \in 1..((Len(rgb) \div 3) * 4) |->
     IF (j - 1) % 4 = 3 THEN 0
     ELSE linearToSRGB8(FromFloat32(rgb[3 * ((j - 1) \div 4) + ((j - 1) % 4) + 1]),
                        target.exposure, target.toneMapping, target.gamma)]

toneMapFloatRGBToRGBA8(rgb, target) ==
  [j \in 1..((Len(rgb) \div 3) * 4) |->
     IF (j - 1) % 4 = 3 THEN 255
     ELSE linearToSRGB8(FromFloat32(rgb[3 * ((j - 1) \div 4) + ((j - 1) % 4) + 1]),
                        target.exposure, target.toneMapping, target.gamma)]

\* Decode sizes, float elements (0, 8, NaN) and targets the conversion is
\* explored on; gamma is in tenths.
PackSizes == {<<1, 1>>, <<2, 1>>, <<1, 2>>}
PackFloats ==
  { [sign |-> 0, exp |-> 0, mantissa |-> 0],
    [sign |-> 0, exp |-> 130, mantissa |-> 0],
    [sign |-> 0, exp |-> 255, mantissa |-> 4194304] }
Targets ==
  { [kind |-> "rgb16f"],
    [kind |-> "rgba8", exposure |-> 0, toneMapping |-> "linear", gamma |-> 22],
    [kind |-> "rgba8", exposure |-> 1, toneMapping |-> "aces", gamma |-> 0] }

\* What the result is built from: the request and the decoder's output,
\* whose data both decoders allocate with decodeWidth * decodeHeight * 3
\* elements.
PackInputs ==
  UNION { [req : [id : {"a"}, format : {"hdr", "exr"}, target : Targets],
           meta : {[width |-> 2 * size[1], height |-> 2 * size[2]]},
           decodeWidth : {size[1]}, decodeHeight : {size[2]},
           rgb : [1..(size[1] * size[2] * 3) -> PackFloats]] : size \in PackSizes }

\* The end of the try block of the worker's self.onmessage: the result is
\* built from the decoded floats and posted.
workerResult ==
  /\ "rgb" \in DOMAIN arg
  /\ ret = NoCall
  /\ LET req == arg.req
         base == [id |-> req.id, format |-> req.format,
                  width |-> arg.meta.width, height |-> arg.meta.height,
                  decodeWidth |-> arg.decodeWidth, decodeHeight |-> arg.decodeHeight]
     IN ret' = [called |-> TRUE,
                result |-> IF req.target.kind = "rgb16f"
                             THEN base @@ [kind |-> "rgb16f",
                                           data |-> packFloatRGBToHalf(arg.rgb)]
                             ELSE base @@ [kind |-> "rgba8",
                                           data |-> toneMapFloatRGBToRGBA8(arg.rgb, req.target)]]
  /\ UNCHANGED <<protoVars, sizeVars, arg>>


(***************************************************************************)
(* Radiance HDR header.  A file is a sequence of bytes 0..255; text is     *)
(* ASCII, which TextDecoder maps to the same character codes.  Offsets     *)
(* count from 0 as in the code: byte `offset` is bytes[offset + 1].        *)
(***************************************************************************)
\* Space, tab, line feed, vertical tab, form feed, carriage return.
IsSpace(c) == c \in {32, 9, 10, 11, 12, 13}
IsDigit(c) == 48 <= c /\ c <= 57

\* String.prototype.trim
trim(line) ==
  LET ink == {i \in 1..Len(line) : ~IsSpace(line[i])}
  IN IF ink = {} THEN <<>>
     ELSE SubSeq(line, CHOOSE i \in ink : \A j \in ink : i <= j,
                       CHOOSE i \in ink : \A j \in ink : j <= i)

startsWith(line, prefix) ==
  Len(line) >= Len(prefix) /\ SubSeq(line, 1, Len(prefix)) = prefix

\* line.split(/\s+/) of a trimmed line: the maximal runs of non-space
\* characters in order; the empty line splits into one empty part.
split(line) ==
  LET starts == {i \in 1..Len(line) : ~IsSpace(line[i]) /\ (i = 1 \/ IsSpace(line[i - 1]))}
      Start(k) == CHOOSE s \in starts : Cardinality({t \in starts : t < s}) = k - 1
      End(s) == CHOOSE e \in s..Len(line) :
                  /\ \A i \in s..e : ~IsSpace(line[i])
                  /\ (e = Len(line) \/ IsSpace(line[e + 1]))
  IN IF line = <<>> THEN << <<>> >>
     ELSE [k \in 1..Cardinality(starts) |-> SubSeq(line, Start(k), End(Start(k)))]

\* The value of a string of decimal digits.
RECURSIVE Decimal(_)
Decimal(digits) ==
  IF digits = <<>> THEN 0
  ELSE 10 * Decimal(SubSeq(digits, 1, Len(digits) - 1)) + (digits[Len(digits)] - 48)

NaN == [finite |-> FALSE, value |-> 0]

\* Number.parseInt(str, 10) of a string without leading space: an optional
\* sign, then the longest run of digits; whatever follows is ignored, and
\* without a digit the result is NaN.
parseInt(str) ==
  LET signed == str # <<>> /\ str[1] \in {43, 45}
      from == IF signed THEN 2 ELSE 1
      stops == {i \in from..Len(str) : ~IsDigit(str[i])}
      upto == IF stops = {} THEN Len(str) ELSE (CHOOSE i \in stops : \A j \in stops : i <= j) - 1
      magnitude == Decimal(SubSeq(str, from, upto))
  IN IF upto < from THEN NaN
     ELSE [finite |-> TRUE,
           value |-> IF signed /\ str[1] = 45 THEN 0 - magnitude ELSE magnitude]

PlusX == <<43, 88>>   \* "+X"
MinusX == <<45, 88>>  \* "-X"
PlusY == <<43, 89>>   \* "+Y"
MinusY == <<45, 89>>  \* "-Y"

Null == [null |-> TRUE]

parseResolution(line) ==
  LET parts == split(trim(line))
  IN IF Len(parts) # 4 THEN Null
     ELSE LET ySign == parts[1]
              yStr == parts[2]
              xSign == parts[3]
              xStr == parts[4]
              height == parseInt(yStr)
              width == parseInt(xStr)
          IN IF ySign = <<>> \/ xSign = <<>> \/ yStr = <<>> \/ xStr = <<>> THEN Null
             ELSE IF ~width.finite \/ ~height.finite THEN Null
             ELSE IF width.value <= 0 \/ height.value <= 0 THEN Null
             ELSE IF ySign # MinusY /\ ySign # PlusY THEN Null
             ELSE IF xSign # PlusX /\ xSign # MinusX THEN Null
             ELSE [width |-> width.value, height |-> height.value,
                   ySign |-> ySign, xSign |-> xSign]

\* readLine: the line that starts at offset, and the offset after its
\* line feed.
readLine(bytes, offset) ==
  LET feeds == {i \in offset..(Len(bytes) - 1) : bytes[i + 1] = 10}
      end == IF feeds = {} THEN Len(bytes) ELSE CHOOSE i \in feeds : \A j \in feeds : i <= j
  IN [line |-> SubSeq(bytes, offset + 1, end), next |-> Min(Len(bytes), end + 1)]

FormatDirective == <<70, 79, 82, 77, 65, 84, 61>>   \* "FORMAT="
FormatRGBE == <<70, 79, 82, 77, 65, 84, 61, 51, 50, 45, 98, 105, 116, 95, 114, 108, 101, 95, 114, 103, 98, 101>>   \* "FORMAT=32-bit_rle_rgbe"

Throw(message) == [ok |-> FALSE, message |-> message]

\* The header loop shared by readHDRMetadata and decodeHDRToFloatRGB, from
\* the line at offset on: what it leaves in formatOk, resolution and
\* offset, or the error it throws.
RECURSIVE readHDRHeader(_, _, _)
readHDRHeader(bytes, offset, formatOk) ==
  IF offset >= Len(bytes)
    THEN [ok |-> TRUE, formatOk |-> formatOk, resolution |-> Null, offset |-> offset]
    ELSE LET l == readLine(bytes, offset)
             ok == IF startsWith(l.line, FormatDirective)
                     THEN trim(l.line) = FormatRGBE
                     ELSE formatOk
         IN IF trim(l.line) = <<>>
              THEN LET r == readLine(bytes, l.next)
                       res == parseResolution(r.line)
                   IN IF res = Null THEN Throw("Invalid HDR resolution")
                      ELSE [ok |-> TRUE, formatOk |-> ok, resolution |-> res, offset |-> r.next]
              ELSE readHDRHeader(bytes, l.next, ok)

readHDRMetadata(buffer) ==
  LET header == readHDRHeader(buffer, 0, FALSE)
  IN IF ~header.ok THEN header
     ELSE IF ~header.formatOk THEN Throw("Unsupported HDR format")
     ELSE IF header.resolution = Null THEN Throw("Missing HDR resolution")
     ELSE [ok |-> TRUE,
           value |-> [format |-> "hdr", width |-> header.resolution.width,
                      height |-> header.resolution.height]]

\* Header texts the reader is explored on: a first line, a FORMAT line (right,
\* wrong or none), further lines, the blank line (or none) and a resolution
\* line.  `right` says whether the text is the supported FORMAT directive;
\* `grammar` whether the text is `<+Y|-Y> <height> <+X|-X> <width>` with
\* positive decimal dimensions, which are then `width` and `height`.
MagicLine == <<35, 63, 82, 65, 68, 73, 65, 78, 67, 69, 10>>   \* "#?RADIANCE\n"
FormatLines ==
  { [text |-> <<70, 79, 82, 77, 65, 84, 61, 51, 50, 45, 98, 105, 116, 95, 114, 108, 101, 95, 114, 103, 98, 101, 10>>, right |-> TRUE],
    [text |-> <<70, 79, 82, 77, 65, 84, 61, 51, 50, 45, 98, 105, 116, 95, 114, 108, 101, 95, 114, 103, 98, 101, 13, 10>>, right |-> TRUE],
    [text |-> <<70, 79, 82, 77, 65, 84, 61, 51, 50, 45, 98, 105, 116, 95, 114, 108, 101, 95, 120, 121, 122, 101, 10>>, right |-> FALSE],
    [text |-> <<70, 79, 82, 77, 65, 84, 61, 10>>, right |-> FALSE],
    [text |-> <<>>, right |-> FALSE] }
\* "FORMAT=32-bit_rle_rgbe\n", "FORMAT=32-bit_rle_rgbe\r\n", "FORMAT=32-bit_rle_xyze\n", "FORMAT=\n", ""
OtherLines == { <<>>, <<69, 88, 80, 79, 83, 85, 82, 69, 61, 49, 10>> }   \* none, "EXPOSURE=1\n"
BlankLines == { <<>>, <<10>>, <<13, 10>> }   \* none, "\n", "\r\n"
ResolutionLines ==
  { [text |-> <<45, 89, 32, 52, 32, 43, 88, 32, 56>>, grammar |-> TRUE, width |-> 8, height |-> 4],
    [text |-> <<43, 89, 32, 49, 50, 32, 45, 88, 32, 51, 48, 10>>, grammar |-> TRUE, width |-> 30, height |-> 12],
    [text |-> <<45, 89, 32, 32, 52, 32, 32, 43, 88, 32, 32, 56, 32, 10>>, grammar |-> TRUE, width |-> 8, height |-> 4],
    [text |-> <<45, 89, 32, 48, 32, 43, 88, 32, 56>>, grammar |-> FALSE, width |-> 0, height |-> 0],
    [text |-> <<45, 89, 32, 52, 32, 43, 88, 32, 45, 56>>, grammar |-> FALSE, width |-> 0, height |-> 0],
    [text |-> <<45, 89, 32, 52, 32, 43, 88>>, grammar |-> FALSE, width |-> 0, height |-> 0],
    [text |-> <<43, 88, 32, 56, 32, 45, 89, 32, 52>>, grammar |-> FALSE, width |-> 0, height |-> 0],
    [text |-> <<45, 89, 32, 52, 120, 32, 43, 88, 32, 56>>, grammar |-> FALSE, width |-> 0, height |-> 0],
    [text |-> <<45, 89, 32, 120, 52, 32, 43, 88, 32, 56>>, grammar |-> FALSE, width |-> 0, height |-> 0],
    [text |-> <<45, 89, 32, 52, 32, 43, 88, 32, 56, 46, 53>>, grammar |-> FALSE, width |-> 0, height |-> 0],
    [text |-> <<45, 89, 32, 52, 32, 43, 88, 32, 56, 32, 57>>, grammar |-> FALSE, width |-> 0, height |-> 0],
    [text |-> <<45, 90, 32, 52, 32, 43, 88, 32, 56>>, grammar |-> FALSE, width |-> 0, height |-> 0],
    [text |-> <<45, 89, 32, 52, 32, 43, 120, 32, 56>>, grammar |-> FALSE, width |-> 0, height |-> 0],
    [text |-> <<>>, grammar |-> FALSE, width |-> 0, height |-> 0] }
\* "-Y 4 +X 8", "+Y 12 -X 30\n", "-Y  4  +X  8 \n", "-Y 0 +X 8", "-Y 4 +X -8", "-Y 4 +X", "+X 8 -Y 4",
\* "-Y 4x +X 8", "-Y x4 +X 8", "-Y 4 +X 8.5", "-Y 4 +X 8 9", "-Z 4 +X 8", "-Y 4 +x 8", ""

HeaderInputs ==
  { [buffer |-> MagicLine \o f.text \o o \o bl \o r.text,
     format |-> f, blank |-> bl # <<>>, resolution |-> r] :
      f \in FormatLines, o \in OtherLines, bl \in BlankLines, r \in ResolutionLines }

\* readHDRMetadata(arg.buffer) is called.
callReadHDRMetadata ==
  /\ ret = NoCall
  /\ ret' = [called |-> TRUE, outcome |-> readHDRMetadata(arg.buffer)]
  /\ UNCHANGED <<protoVars, sizeVars, arg>>

(***************************************************************************)
(* Radiance HDR scanlines.  `scanline` is the decoder's buffer of          *)
(* width * 4 bytes; a decoding step returns [ok, off, scanline] or the     *)
(* error it throws.                                                        *)
(***************************************************************************)
decodeOldPixels(bytes, offset, width, out) ==
  LET needed == width * 4
      end == offset + needed
  IN IF end > Len(bytes) THEN Throw("Unexpected end of HDR data")
     ELSE [ok |-> TRUE, off |-> end, scanline |-> SubSeq(bytes, offset + 1, end)]

\* The loop of decodeRLEChannel from column x on, the next count byte at
\* off.  out.fill stops at the end of the plane; out.set of a run that
\* does not fit the plane throws a RangeError.
RECURSIVE decodeRLERuns(_, _, _, _, _)
decodeRLERuns(bytes, off, width, out, x) ==
  IF x >= width THEN [ok |-> TRUE, off |-> off, out |-> out]
  ELSE IF off >= Len(bytes) THEN Throw("Unexpected end of HDR RLE")
  ELSE LET count == bytes[off + 1]
       IN IF count > 128
            THEN IF off + 1 >= Len(bytes) THEN Throw("Unexpected end of HDR RLE")
                 ELSE LET run == count - 128
                          val == bytes[off + 2]
                      IN decodeRLERuns(bytes, off + 2, width,
                           [i \in 1..width |-> IF x < i /\ i <= x + run THEN val ELSE out[i]],
                           x + run)
          ELSE IF count > 0
            THEN IF off + 1 + count > Len(bytes) THEN Throw("Unexpected end of HDR RLE")
                 ELSE IF x + count > width THEN Throw("offset is out of bounds")
                 ELSE decodeRLERuns(bytes, off + 1 + count, width,
                        [i \in 1..width |->
                           IF x < i /\ i <= x + count THEN bytes[off + 1 + (i - x)] ELSE out[i]],
                        x + count)
          ELSE decodeRLERuns(bytes, off + 1, width, out, x)

\* decodeRLEChannel that takes a repeat count as it stands, without
\* subtracting 128.
decodeRLEChannelLongRuns(bytes, offset, width, out) ==
  LET RECURSIVE Runs(_, _, _)
      Runs(off, o, x) ==
        IF x >= width THEN [ok |-> TRUE, off |-> off, out |-> o]
        ELSE IF off >= Len(bytes) THEN Throw("Unexpected end of HDR RLE")
        ELSE LET count == bytes[off + 1]
             IN IF count > 128
                  THEN IF off + 1 >= Len(bytes) THEN Throw("Unexpected end of HDR RLE")
                       ELSE Runs(off + 2,
                                 [i \in 1..width |->
                                    IF x < i /\ i <= x + count THEN bytes[off + 2] ELSE o[i]],
                                 x + count)
                ELSE IF count > 0
                  THEN IF off + 1 + count > Len(bytes) THEN Throw("Unexpected end of HDR RLE")
                       ELSE IF x + count > width THEN Throw("offset is out of bounds")
                       ELSE Runs(off + 1 + count,
                                 [i \in 1..width |->
                                    IF x < i /\ i <= x + count
                                      THEN bytes[off + 1 + (i - x)] ELSE o[i]],
                                 x + count)
                ELSE Runs(off + 1, o, x)
  IN Runs(offset, out, 0)

decodeRLEChannel(bytes, offset, width, out) == decodeRLERuns(bytes, offset, width, out, 0)

decodeScanline(bytes, offset, width, scanline) ==
  IF width < 8 \/ width > 32767 THEN decodeOldPixels(bytes, offset, width, scanline)
  ELSE IF offset + 4 > Len(bytes) THEN Throw("Unexpected end of HDR data")
  ELSE LET b0 == bytes[offset + 1]
           b1 == bytes[offset + 2]
           b2 == bytes[offset + 3]
           b3 == bytes[offset + 4]
           rleWidth == b2 * 256 + b3
           isRle == b0 = 2 /\ b1 = 2 /\ rleWidth = width
       IN IF ~isRle THEN decodeOldPixels(bytes, offset, width, scanline)
          ELSE LET r == decodeRLEChannel(bytes, offset + 4, width, SubSeq(scanline, 1, width))
               IN IF ~r.ok THEN r
                  ELSE LET g == decodeRLEChannel(bytes, r.off, width,
                                                 SubSeq(scanline, width + 1, width * 2))
                  IN IF ~g.ok THEN g
                  ELSE LET b == decodeRLEChannel(bytes, g.off, width,
                                                 SubSeq(scanline, width * 2 + 1, width * 3))
                  IN IF ~b.ok THEN b
                  ELSE LET e == decodeRLEChannel(bytes, b.off, width,
                                                 SubSeq(scanline, width * 3 + 1, width * 4))
                  IN IF ~e.ok THEN e
                  ELSE [ok |-> TRUE, off |-> e.off,
                        scanline |-> r.out \o g.out \o b.out \o e.out]

\* A run of the adaptive RLE scheme is [kind, data]: a literal run of the
\* bytes `data` (1..128 of them), or a repeat run of Len(data) equal bytes
\* (1..127).  The bytes a run is written as, and those of a list of runs:
RunBytes(run) ==
  IF run.kind = "repeat" THEN <<128 + Len(run.data), run.data[1]>>
  ELSE <<Len(run.data)>> \o run.data

RECURSIVE RunsBytes(_)
RunsBytes(runs) == IF runs = <<>> THEN <<>> ELSE RunBytes(Head(runs)) \o RunsBytes(Tail(runs))

RECURSIVE RunsData(_)
RunsData(runs) == IF runs = <<>> THEN <<>> ELSE Head(runs).data \o RunsData(Tail(runs))

\* The runs of a plan (a list of <<kind, length>>) filled with bytes: a
\* literal run takes successive bytes of the palette, a repeat run one.
Palette == <<2, 0, 128, 129, 255, 1, 2, 130, 127>>
RECURSIVE FillRuns(_, _)
FillRuns(plan, seed) ==
  IF plan = <<>> THEN <<>>
  ELSE LET kind == Head(plan)[1]
           n == Head(plan)[2]
       IN << [kind |-> kind,
              data |-> [i \in 1..n |->
                          Palette[((IF kind = "repeat" THEN seed ELSE seed + i) % Len(Palette)) + 1]]] >>
          \o FillRuns(Tail(plan), seed + n)

\* Ways of cutting a plane of 8 or of 300 bytes into runs.
Plans8 ==
  { << <<"literal", 8>> >>, << <<"repeat", 8>> >>,
    << <<"literal", 3>>, <<"repeat", 5>> >>,
    << <<"repeat", 2>>, <<"literal", 1>>, <<"repeat", 5>> >>,
    << <<"literal", 1>>, <<"literal", 7>> >>,
    << <<"repeat", 1>>, <<"repeat", 7>> >> }
Plans300 ==
  { << <<"repeat", 127>>, <<"literal", 128>>, <<"repeat", 45>> >>,
    << <<"literal", 128>>, <<"literal", 128>>, <<"literal", 44>> >> }

\* An encoded scanline behind `before` bytes and in front of two more, with
\* the planes it encodes and the offset of the first byte after it.
ScanlineInput(width, plans, seed, before) ==
  LET runs == [p \in 1..4 |-> FillRuns(plans[p], seed + p)]
      line == <<2, 2, width \div 256, width % 256>>
                \o RunsBytes(runs[1]) \o RunsBytes(runs[2])
                \o RunsBytes(runs[3]) \o RunsBytes(runs[4])
  IN [bytes |-> [i \in 1..before |-> 10] \o line \o <<2, 2>>,
      offset |-> before, width |-> width,
      planes |-> [p \in 1..4 |-> RunsData(runs[p])],
      end |-> before + Len(line)]

ScanlineInputs ==
  { ScanlineInput(8, <<r, g, b, e>>, seed, before) :
      r \in Plans8, g \in Plans8, b \in Plans8, e \in Plans8, seed \in {0, 4}, before \in {0, 3} }
  \cup { ScanlineInput(300, <<p, q, p, q>>, seed, 3) :
           p \in Plans300, q \in Plans300, seed \in {0, 4} }

\* decodeScanline is called on a fresh scanline buffer.
callDecodeScanline ==
  /\ ret = NoCall
  /\ ret' = [called |-> TRUE,
             outcome |-> decodeScanline(arg.bytes, arg.offset, arg.width,
                                        [i \in 1..(arg.width * 4) |-> 0])]
  /\ UNCHANGED <<protoVars, sizeVars, arg>>

(***************************************************************************)
(* decodeHDRToFloatRGB.  `ret` holds the locals of the running call; the   *)
(* output is a sequence of float bit patterns (the Float32Array `out`).    *)
(* `written` and `from` record, for every output row, how often it was     *)
(* written and from which file scanline; `starts` records the offset at    *)
(* which each scanline was read.                                           *)
(***************************************************************************)
\* The double a / b for integers 0 < b <= a < 2^16: a / (b * 2^j) with
\* b * 2^j the least such value above a, scaled back by 2^j.
FloatDivGE(a, b) ==
  LET j == CHOOSE k \in 1..16 : b * 2 ^ (k - 1) <= a /\ a < b * 2 ^ k
      q == FloatDiv(a, b * 2 ^ j)
  IN [bits |-> q.bits, exp |-> q.exp + j]

\* Math.floor(x) for a double 0 < x < 2^31.
MathFloor(x) ==
  LET n == 53 + x.exp
  IN IF n <= 0 THEN 0 ELSE ToInt(SubSeq(x.bits, 1, Min(n, 53))) * 2 ^ Max(0, n - 53)

\* Math.min(size - 1, Math.floor(i * step)) for step = size / decodeSize,
\* the source row of output row i and the source column of output column i.
sourceIndex(i, size, decodeSize) ==
  Min(size - 1,
      IF i = 0 THEN 0 ELSE MathFloor(FloatMulInt(i, FloatDivGE(size, decodeSize))))

\* rgbeToLinear: (r + 0.5) * 2^(e - 136) is (2r + 1) * 2^(e - 137).
rgbeToLinear(r, g, b, e) ==
  IF e = 0
    THEN [r |-> Number("zero", 0, 0, 0), g |-> Number("zero", 0, 0, 0),
          b |-> Number("zero", 0, 0, 0)]
    ELSE [r |-> Number("finite", 0, 2 * r + 1, e - 137),
          g |-> Number("finite", 0, 2 * g + 1, e - 137),
          b |-> Number("finite", 0, 2 * b + 1, e - 137)]

\* decodeHDRToFloatRGB up to its scanline loop: the header is parsed, the
\* buffers are allocated and the source row of every output row is fixed.
decodeHDRBegin ==
  /\ ret = NoCall
  /\ LET header == readHDRHeader(arg.buffer, 0, FALSE)
         failure == IF ~header.ok THEN header
                    ELSE IF ~header.formatOk THEN Throw("Unsupported HDR format")
                    ELSE IF header.resolution = Null THEN Throw("Missing HDR resolution")
                    ELSE [ok |-> TRUE]
         zero == [sign |-> 0, exp |-> 0, mantissa |-> 0]
     IN IF ~failure.ok
          THEN ret' = [called |-> TRUE, done |-> TRUE, outcome |-> failure]
          ELSE ret' = [called |-> TRUE, done |-> FALSE, outcome |-> Null,
                       width |-> header.resolution.width,
                       height |-> header.resolution.height,
                       ySign |-> header.resolution.ySign,
                       xSign |-> header.resolution.xSign,
                       offset |-> header.offset,
                       out |-> [o \in 1..(arg.decodeWidth * arg.decodeHeight * 3) |-> zero],
                       scanline |-> [i \in 1..(header.resolution.width * 4) |-> 0],
                       selectedSourceY |->
                         [y \in 0..(arg.decodeHeight - 1) |->
                            sourceIndex(y, header.resolution.height, arg.decodeHeight)],
                       fileY |-> 0,
                       written |-> [y \in 0..(arg.decodeHeight - 1) |-> 0],
                       from |-> [y \in 0..(arg.decodeHeight - 1) |-> 0 - 1],
                       starts |-> <<>>]
  /\ UNCHANGED <<protoVars, sizeVars, arg>>

\* WriteRows with the columns mirrored when the file declares +X.
WriteRowsMirrorsPlusX(out, scanline, targetRows, width, xSign, decodeWidth) ==
  LET column == [x \in 0..(decodeWidth - 1) |->
                   LET srcX == sourceIndex(x, width, decodeWidth)
                   IN IF xSign = PlusX THEN width - 1 - srcX ELSE srcX]
      texel == [x \in 0..(decodeWidth - 1) |->
                  LET idx == column[x]
                      rgb == rgbeToLinear(scanline[idx + 1], scanline[idx + width + 1],
                                          scanline[idx + width * 2 + 1],
                                          scanline[idx + width * 3 + 1])
                  IN <<Float32Store(rgb.r), Float32Store(rgb.g), Float32Store(rgb.b)>>]
  IN [o \in 1..Len(out) |->
        LET y == ((o - 1) \div 3) \div decodeWidth
            x == ((o - 1) \div 3) % decodeWidth
        IN IF y \in targetRows THEN texel[x][((o - 1) % 3) + 1] ELSE out[o]]

\* The output after the rows of targetRows are written from the scanline.
WriteRows(out, scanline, targetRows, width, xSign, decodeWidth) ==
  LET column == [x \in 0..(decodeWidth - 1) |->
                   LET srcX == sourceIndex(x, width, decodeWidth)
                   IN IF xSign = PlusX THEN srcX ELSE width - 1 - srcX]
      texel == [x \in 0..(decodeWidth - 1) |->
                  LET idx == column[x]
                      rgb == rgbeToLinear(scanline[idx + 1], scanline[idx + width + 1],
                                          scanline[idx + width * 2 + 1],
                                          scanline[idx + width * 3 + 1])
                  IN <<Float32Store(rgb.r), Float32Store(rgb.g), Float32Store(rgb.b)>>]
  IN [o \in 1..Len(out) |->
        LET y == ((o - 1) \div 3) \div decodeWidth
            x == ((o - 1) \div 3) % decodeWidth
        IN IF y \in targetRows THEN texel[x][((o - 1) % 3) + 1] ELSE out[o]]

\* One pass of the scanline loop in which a failed scanline ends the loop
\* and what has been written is returned.
decodeHDRScanlineKeepsPartial ==
  /\ ret # NoCall /\ ~ret.done
  /\ ret.fileY < ret.height
  /\ LET d == decodeScanline(arg.buffer, ret.offset, ret.width, ret.scanline)
         srcY == IF ret.ySign = MinusY THEN ret.fileY ELSE ret.height - 1 - ret.fileY
         targetRows == {y \in 0..(arg.decodeHeight - 1) : ret.selectedSourceY[y] = srcY}
     IN IF ~d.ok
          THEN ret' = [ret EXCEPT !.done = TRUE,
                         !.outcome = [ok |-> TRUE,
                                      value |-> [format |-> "hdr", width |-> ret.width,
                                                 height |-> ret.height,
                                                 decodeWidth |-> arg.decodeWidth,
                                                 decodeHeight |-> arg.decodeHeight,
                                                 data |-> ret.out]]]
          ELSE ret' = [ret EXCEPT
                         !.offset = d.off,
                         !.scanline = d.scanline,
                         !.out = WriteRows(ret.out, d.scanline, targetRows, ret.width,
                                           ret.xSign, arg.decodeWidth),
                         !.fileY = @ + 1,
                         !.written = [y \in DOMAIN @ |->
                                        IF y \in targetRows THEN @[y] + 1 ELSE @[y]],
                         !.from = [y \in DOMAIN @ |->
                                     IF y \in targetRows THEN ret.fileY ELSE @[y]],
                         !.starts = Append(@, ret.offset)]
  /\ UNCHANGED <<protoVars, sizeVars, arg>>

\* One pass of the scanline loop in which a scanline that no output row
\* takes is passed over without being decoded.
decodeHDRScanlineSkipsUnused ==
  /\ ret # NoCall /\ ~ret.done
  /\ ret.fileY < ret.height
  /\ LET d == decodeScanline(arg.buffer, ret.offset, ret.width, ret.scanline)
         srcY == IF ret.ySign = MinusY THEN ret.fileY ELSE ret.height - 1 - ret.fileY
         targetRows == {y \in 0..(arg.decodeHeight - 1) : ret.selectedSourceY[y] = srcY}
     IN IF targetRows = {}
          THEN ret' = [ret EXCEPT !.fileY = @ + 1]
          ELSE IF ~d.ok
          THEN ret' = [ret EXCEPT !.done = TRUE, !.outcome = d]
          ELSE ret' = [ret EXCEPT
                         !.offset = d.off,
                         !.scanline = d.scanline,
                         !.out = WriteRows(ret.out, d.scanline, targetRows, ret.width,
                                           ret.xSign, arg.decodeWidth),
                         !.fileY = @ + 1,
                         !.written = [y \in DOMAIN @ |->
                                        IF y \in targetRows THEN @[y] + 1 ELSE @[y]],
                         !.from = [y \in DOMAIN @ |->
                                     IF y \in targetRows THEN ret.fileY ELSE @[y]],
                         !.starts = Append(@, ret.offset)]
  /\ UNCHANGED <<protoVars, sizeVars, arg>>

\* One pass of the scanline loop: scanline fileY is decoded and the output
\* rows that take it are written; an error ends the call.
decodeHDRScanline ==
  /\ ret # NoCall /\ ~ret.done
  /\ ret.fileY < ret.height
  /\ LET d == decodeScanline(arg.buffer, ret.offset, ret.width, ret.scanline)
         srcY == IF ret.ySign = MinusY THEN ret.fileY ELSE ret.height - 1 - ret.fileY
         targetRows == {y \in 0..(arg.decodeHeight - 1) : ret.selectedSourceY[y] = srcY}
     IN IF ~d.ok
          THEN ret' = [ret EXCEPT !.done = TRUE, !.outcome = d]
          ELSE ret' = [ret EXCEPT
                         !.offset = d.off,
                         !.scanline = d.scanline,
                         !.out = WriteRows(ret.out, d.scanline, targetRows, ret.width,
                                           ret.xSign, arg.decodeWidth),
                         !.fileY = @ + 1,
                         !.written = [y \in DOMAIN @ |->
                                        IF y \in targetRows THEN @[y] + 1 ELSE @[y]],
                         !.from = [y \in DOMAIN @ |->
                                     IF y \in targetRows THEN ret.fileY ELSE @[y]],
                         !.starts = Append(@, ret.offset)]
  /\ UNCHANGED <<protoVars, sizeVars, arg>>

\* The loop is over: the result is returned.
decodeHDRReturn ==
  /\ ret # NoCall /\ ~ret.done
  /\ ret.fileY = ret.height
  /\ ret' = [ret EXCEPT !.done = TRUE,
               !.outcome = [ok |-> TRUE,
                            value |-> [format |-> "hdr", width |-> ret.width,
                                       height |-> ret.height,
                                       decodeWidth |-> arg.decodeWidth,
                                       decodeHeight |-> arg.decodeHeight,
                                       data |-> ret.out]]]
  /\ UNCHANGED <<protoVars, sizeVars, arg>>

\* The decimal digits of n >= 0.
RECURSIVE ToDigits(_)
ToDigits(n) == IF n < 10 THEN <<48 + n>> ELSE ToDigits(n \div 10) \o <<48 + (n % 10)>>

\* The texel (R, G, B, E) of file scanline k, column c, of the test image:
\* R tells the column, G the scanline; one texel has E = 0.
Texel(k, c) == <<c + 1, k + 1, 200, IF c = 2 /\ k = 1 THEN 0 ELSE 128 + (c % 3)>>

\* Scanline k of the test image as stored: new format for 8 <= width <=
\* 32767 (R and E literal runs, G and B repeat runs), old format otherwise.
StoredScanline(k, width) ==
  IF width < 8 \/ width > 32767
    THEN [i \in 1..(4 * width) |-> Texel(k, (i - 1) \div 4)[((i - 1) % 4) + 1]]
    ELSE <<2, 2, width \div 256, width % 256>>
           \o <<width>> \o [c \in 1..width |-> Texel(k, c - 1)[1]]
           \o <<128 + width, k + 1>> \o <<128 + width, 200>>
           \o <<width>> \o [c \in 1..width |-> Texel(k, c - 1)[4]]

RECURSIVE StoredScanlines(_, _, _)
StoredScanlines(k, height, width) ==
  IF k = height THEN <<>>
  ELSE StoredScanline(k, width) \o StoredScanlines(k + 1, height, width)

\* A file of the test image with the given resolution line, without its
\* last `cut` bytes, and a decode size.
HDRInput(ySign, xSign, width, height, decodeWidth, decodeHeight, cut) ==
  LET header == MagicLine \o FormatRGBE \o <<10, 10>> \o ySign \o <<32>> \o ToDigits(height)
                  \o <<32>> \o xSign \o <<32>> \o ToDigits(width) \o <<10>>
      file == header \o StoredScanlines(0, height, width)
  IN [buffer |-> SubSeq(file, 1, Len(file) - cut),
      decodeWidth |-> decodeWidth, decodeHeight |-> decodeHeight,
      width |-> width, height |-> height, ySign |-> ySign, xSign |-> xSign,
      pixels |-> Len(header), cut |-> cut]

\* Whole files in every orientation, each size with a decode size, and
\* files cut anywhere in their scanlines: 8 x 3 in new format (scanlines of
\* 26 bytes) and 3 x 2 in old format (scanlines of 12 bytes).
HDRInputs ==
  { HDRInput(ySign, xSign, s[1], s[2], s[3], s[4], 0) :
      ySign \in {MinusY, PlusY}, xSign \in {PlusX, MinusX},
      s \in { <<8, 4, 8, 4>>, <<8, 4, 3, 1>>, <<8, 4, 5, 3>>, <<8, 30, 8, 22>>,
              <<30, 2, 22, 2>>, <<30, 2, 7, 1>>, <<3, 2, 2, 2>> } }
    \cup { HDRInput(MinusY, PlusX, 8, 3, 4, 2, cut) : cut \in 1..(3 * 26) }
    \cup { HDRInput(PlusY, PlusX, 3, 2, 3, 2, cut) : cut \in 1..(2 * 12) }

(***************************************************************************)
(* The OpenEXR header: parseHeader and its readers.  Numbers are read      *)
(* exactly as long as they are below 2^31 in magnitude, which the fields   *)
(* of the headers considered here are.                                     *)
(***************************************************************************)
readUint32LE(bytes, offset) ==
  bytes[offset + 1] + 256 * bytes[offset + 2] + 65536 * bytes[offset + 3]
    + 16777216 * bytes[offset + 4]

readInt32LE(bytes, offset) ==
  bytes[offset + 1] + 256 * bytes[offset + 2] + 65536 * bytes[offset + 3]
    + 16777216 * (IF bytes[offset + 4] >= 128 THEN bytes[offset + 4] - 256
                  ELSE bytes[offset + 4])

\* The bytes from offset up to the first 0 or the end of the buffer, and
\* the offset after that 0.
readNullTerminatedString(bytes, offset) ==
  LET end == IF offset >= Len(bytes) THEN offset
             ELSE CHOOSE e \in offset..Len(bytes) :
                    /\ e = Len(bytes) \/ bytes[e + 1] = 0
                    /\ \A f \in offset..(e - 1) : bytes[f + 1] # 0
  IN [value |-> IF offset >= Len(bytes) THEN <<>> ELSE SubSeq(bytes, offset + 1, end),
      next |-> end + 1]

\* The loop of parseChannels from offset off with the channels read so far.
RECURSIVE parseChannelList(_, _, _)
parseChannelList(value, off, channels) ==
  LET name == readNullTerminatedString(value, off)
      finish == IF channels = <<>> THEN Throw("EXR has no channels")
                ELSE [ok |-> TRUE, channels |-> channels]
  IN IF off >= Len(value) \/ name.value = <<>> THEN finish
     ELSE IF name.next + 16 > Len(value) THEN Throw("Invalid EXR channels")
     ELSE parseChannelList(value, name.next + 16,
            Append(channels, [name |-> name.value,
                              pixelType |-> readInt32LE(value, name.next),
                              xSampling |-> readInt32LE(value, name.next + 8),
                              ySampling |-> readInt32LE(value, name.next + 12)]))

parseChannels(value) == parseChannelList(value, 0, <<>>)

parseBox2i(bytes, offset) ==
  [minX |-> readInt32LE(bytes, offset), minY |-> readInt32LE(bytes, offset + 4),
   maxX |-> readInt32LE(bytes, offset + 8), maxY |-> readInt32LE(bytes, offset + 12)]

\* The attribute names and types parseHeader looks for.
EXRNames ==
  [dataWindow |-> <<100, 97, 116, 97, 87, 105, 110, 100, 111, 119>>,
   box2i |-> <<98, 111, 120, 50, 105>>,
   channels |-> <<99, 104, 97, 110, 110, 101, 108, 115>>,
   chlist |-> <<99, 104, 108, 105, 115, 116>>,
   compression |-> <<99, 111, 109, 112, 114, 101, 115, 115, 105, 111, 110>>,
   tiles |-> <<116, 105, 108, 101, 115>>]

\* The attribute loop of parseHeader from offset off; `found` holds
\* dataWindow, channels (<<>> for null), compression and hasTiles.
RECURSIVE parseAttributes(_, _, _)
parseAttributes(bytes, off, found) ==
  LET name == readNullTerminatedString(bytes, off)
      type == readNullTerminatedString(bytes, name.next)
      size == readUint32LE(bytes, type.next)
      end == type.next + 4 + size
      value == SubSeq(bytes, type.next + 5, end)
  IN IF off >= Len(bytes) THEN [ok |-> TRUE, off |-> off, found |-> found]
     ELSE IF name.value = <<>> THEN [ok |-> TRUE, off |-> name.next, found |-> found]
     ELSE IF type.next + 4 > Len(bytes) THEN Throw("Invalid EXR header")
     ELSE IF end > Len(bytes) THEN Throw("Invalid EXR header attribute size")
     ELSE IF name.value = EXRNames.dataWindow /\ type.value = EXRNames.box2i /\ size = 16
       THEN parseAttributes(bytes, end, [found EXCEPT !.dataWindow = parseBox2i(value, 0)])
     ELSE IF name.value = EXRNames.channels /\ type.value = EXRNames.chlist
       THEN LET parsed == parseChannels(value)
            IN IF ~parsed.ok THEN parsed
               ELSE parseAttributes(bytes, end, [found EXCEPT !.channels = parsed.channels])
     ELSE IF name.value = EXRNames.compression /\ type.value = EXRNames.compression
               /\ size = 1
       THEN IF value[1] \in {0, 2, 3}
              THEN parseAttributes(bytes, end,
                     [found EXCEPT !.compression =
                        CASE value[1] = 0 -> "none" [] value[1] = 2 -> "zips"
                          [] value[1] = 3 -> "zip"])
              ELSE Throw("Unsupported EXR compression")
     ELSE IF name.value = EXRNames.tiles
       THEN parseAttributes(bytes, end, [found EXCEPT !.hasTiles = TRUE])
     ELSE parseAttributes(bytes, end, found)

\* parseHeader without the check of the size of the data window.
parseHeaderKeepsEmptyWindow(buffer) ==
  LET loop == parseAttributes(buffer, 8,
                [dataWindow |-> Null, channels |-> <<>>, compression |-> "none",
                 hasTiles |-> FALSE])
  IN IF readUint32LE(buffer, 0) # 20000630 THEN Throw("Invalid EXR signature")
     ELSE IF ~loop.ok THEN loop
     ELSE IF loop.found.hasTiles THEN Throw("Tiled EXR is not supported")
     ELSE IF loop.found.dataWindow = Null THEN Throw("EXR missing dataWindow")
     ELSE IF loop.found.channels = <<>> THEN Throw("EXR missing channels")
     ELSE [ok |-> TRUE,
           value |-> [width |-> loop.found.dataWindow.maxX - loop.found.dataWindow.minX + 1,
                      height |-> loop.found.dataWindow.maxY - loop.found.dataWindow.minY + 1,
                      dataMinX |-> loop.found.dataWindow.minX,
                      dataMinY |-> loop.found.dataWindow.minY,
                      channels |-> loop.found.channels,
                      compression |-> loop.found.compression,
                      offsetTablePos |-> loop.off]]

parseHeader(buffer) ==
  LET loop == parseAttributes(buffer, 8,
                [dataWindow |-> Null, channels |-> <<>>, compression |-> "none",
                 hasTiles |-> FALSE])
      width == loop.found.dataWindow.maxX - loop.found.dataWindow.minX + 1
      height == loop.found.dataWindow.maxY - loop.found.dataWindow.minY + 1
  IN IF readUint32LE(buffer, 0) # 20000630 THEN Throw("Invalid EXR signature")
     ELSE IF ~loop.ok THEN loop
     ELSE IF loop.found.hasTiles THEN Throw("Tiled EXR is not supported")
     ELSE IF loop.found.dataWindow = Null THEN Throw("EXR missing dataWindow")
     ELSE IF loop.found.channels = <<>> THEN Throw("EXR missing channels")
     ELSE IF width <= 0 \/ height <= 0 THEN Throw("Invalid EXR dataWindow")
     ELSE [ok |-> TRUE,
           value |-> [width |-> width, height |-> height,
                      dataMinX |-> loop.found.dataWindow.minX,
                      dataMinY |-> loop.found.dataWindow.minY,
                      channels |-> loop.found.channels,
                      compression |-> loop.found.compression,
                      offsetTablePos |-> loop.off]]

\* parseHeader is called on the buffer.
callParseHeader ==
  /\ ret = NoCall
  /\ arg.from = "header"
  /\ ret' = [called |-> TRUE, outcome |-> parseHeader(arg.buffer)]
  /\ UNCHANGED <<protoVars, sizeVars, arg>>

\* The four bytes of n, -2^31 <= n < 2^31, least significant first.
Int32LE(n) ==
  LET u == IF n < 0 THEN n + 2147483647 + 1 ELSE n
  IN <<u % 256, (u \div 256) % 256, (u \div 65536) % 256,
       (u \div 16777216) + (IF n < 0 THEN 128 ELSE 0)>>

\* An attribute record: name, type, size and value.
Attribute(name, type, value) ==
  name \o <<0>> \o type \o <<0>> \o Int32LE(Len(value)) \o value

\* The value of a channels attribute: per channel its name, pixel type,
\* pLinear with three reserved bytes, and the two samplings.
RECURSIVE ChannelList(_)
ChannelList(channels) ==
  IF channels = <<>> THEN <<0>>
  ELSE Head(channels).name \o <<0>> \o Int32LE(Head(channels).pixelType) \o <<0, 0, 0, 0>>
         \o Int32LE(Head(channels).xSampling) \o Int32LE(Head(channels).ySampling)
         \o ChannelList(Tail(channels))

\* A file that starts with the magic number and version, the attributes
\* that are asked for (in file order, or channels first when `turned`), the
\* empty name and two entries of the offset table.
EXRHeaderInput(magic, tiles, compression, dataWindow, channels, turned) ==
  LET tilesA == IF tiles THEN Attribute(EXRNames.tiles, <<116, 105, 108, 101, 100, 101, 115, 99>>,
                                        <<64, 0, 0, 0, 64, 0, 0, 0, 0>>)
                ELSE <<>>
      compressionA == IF compression < 0 THEN <<>>
                      ELSE Attribute(EXRNames.compression, EXRNames.compression,
                                     <<compression>>)
      dataWindowA == IF dataWindow = Null THEN <<>>
                     ELSE Attribute(EXRNames.dataWindow, EXRNames.box2i,
                                    Int32LE(dataWindow.minX) \o Int32LE(dataWindow.minY)
                                      \o Int32LE(dataWindow.maxX) \o Int32LE(dataWindow.maxY))
      channelsA == IF channels = <<>> THEN <<>>
                   ELSE Attribute(EXRNames.channels, EXRNames.chlist, ChannelList(channels))
      \* "pixelAspectRatio" is not looked at: here an attribute "par" of type "float"
      other == Attribute(<<112, 97, 114>>, <<102, 108, 111, 97, 116>>, <<0, 0, 128, 63>>)
      header == Int32LE(magic) \o <<2, 0, 0, 0>>
                  \o (IF turned
                        THEN channelsA \o other \o dataWindowA \o compressionA \o tilesA
                        ELSE tilesA \o compressionA \o dataWindowA \o other \o channelsA)
                  \o <<0>>
  IN [from |-> "header", buffer |-> header \o Int32LE(Len(header) + 16) \o <<0, 0, 0, 0>>
                                      \o Int32LE(Len(header) + 40) \o <<0, 0, 0, 0>>,
      magic |-> magic, tiles |-> tiles, compression |-> compression,
      dataWindow |-> dataWindow, channels |-> channels, end |-> Len(header)]

Channel(name, pixelType) ==
  [name |-> name, pixelType |-> pixelType, xSampling |-> 1, ySampling |-> 1]

EXRHeaderInputs ==
  { EXRHeaderInput(magic, tiles, compression, dataWindow, channels, turned) :
      magic \in {20000630, 20000631, 1982803969},
      tiles \in BOOLEAN,
      compression \in {0 - 1, 0, 1, 2, 3, 4},
      dataWindow \in {Null,
                      [minX |-> 0, minY |-> 0, maxX |-> 7, maxY |-> 3],
                      [minX |-> 0 - 2, minY |-> 1, maxX |-> 5, maxY |-> 1],
                      [minX |-> 5, minY |-> 5, maxX |-> 4, maxY |-> 9],
                      [minX |-> 0, minY |-> 300, maxX |-> 70000, maxY |-> 0 - 1]},
      channels \in {<<>>,
                    <<Channel(<<66>>, 1), Channel(<<71>>, 1), Channel(<<82>>, 1)>>,
                    <<Channel(<<65, 46, 82>>, 2), Channel(<<89>>, 0)>>},
      turned \in BOOLEAN }

(***************************************************************************)
(* selectChannels.  Channel positions count from 0 as in the code.         *)
(***************************************************************************)
\* String.prototype.toUpperCase on ASCII text.
toUpperCase(str) == [i \in 1..Len(str) |-> IF str[i] \in 97..122 THEN str[i] - 32 ELSE str[i]]

\* The name is split at its last '.'.
splitChannelName(name) ==
  LET dots == {i \in 1..Len(name) : name[i] = 46}
      dot == CHOOSE i \in dots : \A j \in dots : j <= i
  IN IF dots = {} THEN [layer |-> <<>>, component |-> name]
     ELSE [layer |-> SubSeq(name, 1, dot - 1), component |-> SubSeq(name, dot + 1, Len(name))]

\* layers: for every layer the position of its first channel (its order)
\* and, per upper-cased component, the position of the first channel.
\* found(keys): the default layer if it has all keys, else the first layer
\* by order that has them, else none.
selectChannelsFirstLayer(channels) ==
  LET positions == 0..(Len(channels) - 1)
      parts == [i \in positions |-> splitChannelName(channels[i + 1].name)]
      key == [i \in positions |-> toUpperCase(parts[i].component)]
      first(layer, k) ==
        CHOOSE i \in positions :
          /\ parts[i].layer = layer /\ key[i] = k
          /\ \A j \in positions : (parts[j].layer = layer /\ key[j] = k) => i <= j
      has(layer, k) == \E i \in positions : parts[i].layer = layer /\ key[i] = k
      order(layer) == CHOOSE i \in positions :
                        parts[i].layer = layer
                          /\ \A j \in positions : parts[j].layer = layer => i <= j
      with(keys) == {parts[i].layer : i \in {j \in positions : \A k \in keys : has(parts[j].layer, k)}}
      found(keys) ==
        CHOOSE l \in with(keys) : \A m \in with(keys) : order(l) <= order(m)
  IN IF with({<<82>>, <<71>>, <<66>>}) # {}
       THEN [r |-> first(found({<<82>>, <<71>>, <<66>>}), <<82>>),
             g |-> first(found({<<82>>, <<71>>, <<66>>}), <<71>>),
             b |-> first(found({<<82>>, <<71>>, <<66>>}), <<66>>)]
     ELSE IF with({<<89>>}) # {} THEN [y |-> first(found({<<89>>}), <<89>>)]
     ELSE [r |-> 0]

selectChannels(channels) ==
  LET positions == 0..(Len(channels) - 1)
      parts == [i \in positions |-> splitChannelName(channels[i + 1].name)]
      key == [i \in positions |-> toUpperCase(parts[i].component)]
      first(layer, k) ==
        CHOOSE i \in positions :
          /\ parts[i].layer = layer /\ key[i] = k
          /\ \A j \in positions : (parts[j].layer = layer /\ key[j] = k) => i <= j
      has(layer, k) == \E i \in positions : parts[i].layer = layer /\ key[i] = k
      order(layer) == CHOOSE i \in positions :
                        parts[i].layer = layer
                          /\ \A j \in positions : parts[j].layer = layer => i <= j
      with(keys) == {parts[i].layer : i \in {j \in positions : \A k \in keys : has(parts[j].layer, k)}}
      found(keys) ==
        IF <<>> \in with(keys) THEN <<>>
        ELSE CHOOSE l \in with(keys) : \A m \in with(keys) : order(l) <= order(m)
  IN IF with({<<82>>, <<71>>, <<66>>}) # {}
       THEN [r |-> first(found({<<82>>, <<71>>, <<66>>}), <<82>>),
             g |-> first(found({<<82>>, <<71>>, <<66>>}), <<71>>),
             b |-> first(found({<<82>>, <<71>>, <<66>>}), <<66>>)]
     ELSE IF with({<<89>>}) # {} THEN [y |-> first(found({<<89>>}), <<89>>)]
     ELSE [r |-> 0]

\* The channel positions sampleLine reads for the outputs r, g and b.
sampledChannels(selected) ==
  IF {"r", "g", "b"} \subseteq DOMAIN selected THEN <<selected.r, selected.g, selected.b>>
  ELSE IF "y" \in DOMAIN selected THEN <<selected.y, selected.y, selected.y>>
  ELSE <<0, 0, 0>>

\* selectChannels is called on the channel list, as the decoder does before
\* it samples the lines.
callSelectChannels ==
  /\ ret = NoCall
  /\ arg.from = "channels"
  /\ LET selected == selectChannels(arg.channels)
     IN ret' = [called |-> TRUE, selected |-> selected,
                outputs |-> sampledChannels(selected)]
  /\ UNCHANGED <<protoVars, sizeVars, arg>>

\* Channel lists of one to four names out of R, G, B, Y, A.R, A.G, A.B,
\* A.Y, r and Z, and four longer ones.
ChannelInputs ==
  LET names == { <<82>>, <<71>>, <<66>>, <<89>>, <<65, 46, 82>>, <<65, 46, 71>>,
                 <<65, 46, 66>>, <<65, 46, 89>>, <<114>>, <<90>> }
      A == <<65, 46>>
      L == <<76, 46, 77, 46>>
      longer == { <<A \o <<82>>, <<82>>, A \o <<71>>, <<71>>, A \o <<66>>, <<66>>>>,
                  <<L \o <<82>>, L \o <<71>>, L \o <<66>>, A \o <<82>>, A \o <<71>>, A \o <<66>>>>,
                  <<<<90>>, A \o <<82>>, A \o <<82>>, A \o <<71>>, A \o <<66>>, <<89>>>>,
                  <<<<114>>, <<103>>, <<98>>, <<89>>, A \o <<89>>>> }
      lists == UNION { [1..n -> names] : n \in 1..4 } \cup longer
  IN { [from |-> "channels",
        channels |-> [i \in 1..Len(l) |-> Channel(l[i], 1)]] : l \in lists }

(***************************************************************************)
(* decodeEXRToFloatRGB.  `ret` holds the locals of the running call, the   *)
(* output as a sequence of float bit patterns.  `orders` records the       *)
(* transform order each processed block was decoded with.                  *)
(***************************************************************************)
unshuffle(input) ==
  LET half == (Len(input) + 1) \div 2
  IN [i \in 1..Len(input) |->
        IF i % 2 = 1 THEN input[(i + 1) \div 2] ELSE input[half + (i \div 2)]]

\* data[i] = (data[i] + data[i - 1] - 128) & 0xff, cumulatively: element i
\* becomes the sum of the elements up to i less 128 for each but the first.
reversePredictor(data) ==
  LET RECURSIVE Run(_, _)
      Run(i, acc) ==
        IF i > Len(data) THEN acc
        ELSE Run(i + 1, Append(acc, (data[i] + acc[i - 1] + 128) % 256))
  IN IF data = <<>> THEN <<>> ELSE Run(2, <<data[1]>>)

\* DecompressionStream('deflate') on a zlib stream that holds one stored
\* block (header 0x78 0x01, block header 0x01, LEN, ~LEN, the bytes, their
\* Adler-32); anything else here is a stream that fails to inflate.
decompressDeflate(data) ==
  LET n == Len(data) - 11
      RECURSIVE Sums(_, _, _)
      Sums(i, a, b) ==
        IF i > n THEN <<a, b>>
        ELSE Sums(i + 1, (a + data[7 + i]) % 65521, (b + a + data[7 + i]) % 65521)
      adler == Sums(1, 1, 0)
  IN IF /\ n >= 0
        /\ data[1] = 120 /\ data[2] = 1 /\ data[3] = 1
        /\ data[4] + 256 * data[5] = n
        /\ data[6] = 255 - data[4] /\ data[7] = 255 - data[5]
        /\ data[n + 8] = adler[2] \div 256 /\ data[n + 9] = adler[2] % 256
        /\ data[n + 10] = adler[1] \div 256 /\ data[n + 11] = adler[1] % 256
       THEN [ok |-> TRUE, bytes |-> SubSeq(data, 8, n + 7)]
       ELSE Throw("The compressed data was not valid")

\* decodePixel on the bytes of a block; a UINT value is exact below 2^24.
decodePixel(bytes, offset, type) ==
  IF type = 0
    THEN (IF readUint32LE(bytes, offset) = 0 THEN Number("zero", 0, 0, 0)
          ELSE Number("finite", 0, readUint32LE(bytes, offset), 0))
  ELSE IF type = 1 THEN halfToFloat(bytes[offset + 1] + 256 * bytes[offset + 2])
  ELSE FromFloat32([sign |-> bytes[offset + 4] \div 128,
                    exp |-> 2 * (bytes[offset + 4] % 128) + (bytes[offset + 3] \div 128),
                    mantissa |-> 65536 * (bytes[offset + 3] % 128)
                                   + 256 * bytes[offset + 2] + bytes[offset + 1]])

pixelByteSize(type) == IF type = 1 THEN 2 ELSE 4

\* hi * 2^32 + lo; a value of 2^31 or more, which lies past the end of
\* every buffer, is given as 2^31 - 1.
readUint64LE(bytes, offset) ==
  IF bytes[offset + 4] >= 128 \/ \E i \in 5..8 : bytes[offset + i] # 0
    THEN 2147483647
    ELSE readUint32LE(bytes, offset)

\* blockLines with sixteen lines per block for zips as well.
blockLinesZipsToo(compression) == IF compression \in {"zip", "zips"} THEN 16 ELSE 1

blockLines(compression) == IF compression = "zip" THEN 16 ELSE 1

\* channelBaseWithinLine[channelPos] and bytesPerLine (for channelPos =
\* channels.length); channel positions count from 0.
channelBaseWithinLine(channels, width, channelPos) ==
  LET RECURSIVE Base(_)
      Base(k) == IF k = 0 THEN 0
                 ELSE Base(k - 1) + width * pixelByteSize(channels[k].pixelType)
  IN Base(channelPos)

\* readValueAt that takes the block as channel after channel, each with
\* all its lines.
readValueAtChannelMajor(uncompressed, channels, width, channelPos, x, lineIndex) ==
  LET size == pixelByteSize(channels[channelPos + 1].pixelType)
      lines == Len(uncompressed) \div channelBaseWithinLine(channels, width, Len(channels))
  IN decodePixel(uncompressed,
                 lines * channelBaseWithinLine(channels, width, channelPos)
                   + lineIndex * width * size + x * size,
                 channels[channelPos + 1].pixelType)

\* readValueAt of scoreUncompressed and of sampleLine (baseOffset 0).
readValueAt(uncompressed, channels, width, channelPos, x, lineIndex) ==
  decodePixel(uncompressed,
              lineIndex * channelBaseWithinLine(channels, width, Len(channels))
                + channelBaseWithinLine(channels, width, channelPos)
                + x * pixelByteSize(channels[channelPos + 1].pixelType),
              channels[channelPos + 1].pixelType)

\* Number.isFinite(v) && Math.abs(v) < 1e6
Plausible(v) ==
  \/ v.class = "zero"
  \/ /\ v.class = "finite"
     /\ IF v.e >= 0 THEN Log2(v.m) + v.e < 20 /\ v.m * 2 ^ v.e < 1000000
        ELSE 0 - v.e > 10 \/ v.m < 1000000 * 2 ^ (0 - v.e)

\* The count `score` of scoreUncompressed; `total` is the same for both
\* orders of a block, so the quotients compare as the counts do.
scoreUncompressed(uncompressed, linesInBlock, channels, width) ==
  LET step == Max(1, width \div Min(width, 24))
      lines == IF linesInBlock > 1 THEN {0, linesInBlock \div 2} ELSE {0}
      read == sampledChannels(selectChannels(channels))
  IN Cardinality({s \in lines \X {x \in 0..(width - 1) : x % step = 0} \X {1, 2, 3} :
                    Plausible(readValueAt(uncompressed, channels, width, read[s[3]],
                                          s[2], s[1]))})

\* The order is decided anew for every block.
zipTransformEveryBlock(decided, inflated, linesInBlock, channels, width) ==
  IF scoreUncompressed(unshuffle(reversePredictor(inflated)), linesInBlock, channels, width)
       >= scoreUncompressed(reversePredictor(unshuffle(inflated)), linesInBlock, channels,
                            width)
    THEN "predictor-then-unshuffle"
    ELSE "unshuffle-then-predictor"

\* zipTransform after `if (!zipTransform) { ... }`.
zipTransform(decided, inflated, linesInBlock, channels, width) ==
  IF decided # "null" THEN decided
  ELSE IF scoreUncompressed(unshuffle(reversePredictor(inflated)), linesInBlock, channels,
                            width)
            >= scoreUncompressed(reversePredictor(unshuffle(inflated)), linesInBlock,
                                 channels, width)
    THEN "predictor-then-unshuffle"
    ELSE "unshuffle-then-predictor"

\* The test that passes over a block, without the lower bound.
blockSkippedPastEnd(blockOffset, byteLength) == blockOffset >= byteLength

blockSkipped(blockOffset, byteLength) == blockOffset <= 0 \/ blockOffset >= byteLength

\* The call up to its block loop: header, offset table, the source row of
\* every output row, the output buffer.
decodeEXRBegin ==
  /\ ret = NoCall
  /\ \E header \in {parseHeader(arg.buffer)} :
       LET blocks == (header.value.height + blockLines(header.value.compression) - 1)
                       \div blockLines(header.value.compression)
           zero == [sign |-> 0, exp |-> 0, mantissa |-> 0]
       IN IF ~header.ok
            THEN ret' = [called |-> TRUE, done |-> TRUE, outcome |-> header]
          ELSE IF header.value.offsetTablePos + 8 * blocks > Len(arg.buffer)
            THEN ret' = [called |-> TRUE, done |-> TRUE,
                         outcome |-> Throw("Offset is outside the bounds of the DataView")]
          ELSE ret' = [called |-> TRUE, done |-> FALSE, outcome |-> Null,
                       header |-> header.value,
                       blocks |-> blocks,
                       offsets |-> [i \in 1..blocks |->
                                      readUint64LE(arg.buffer,
                                                   header.value.offsetTablePos + 8 * (i - 1))],
                       sourceYToTargets |->
                         [y \in 0..(arg.decodeHeight - 1) |->
                            sourceIndex(y, header.value.height, arg.decodeHeight)],
                       out |-> [o \in 1..(arg.decodeWidth * arg.decodeHeight * 3) |-> zero],
                       zipTransform |-> "null",
                       blockIndex |-> 0,
                       orders |-> <<>>]
  /\ UNCHANGED <<protoVars, sizeVars, arg>>

\* The output after sampleLine has run for the lines of a block that
\* output rows take: line srcY - y0 of the block goes to the rows of srcY.
sampleLines(out, uncompressed, y0, linesInBlock, frame, decodeWidth) ==
  LET read == sampledChannels(selectChannels(frame.header.channels))
  IN [o \in 1..Len(out) |->
        LET y == ((o - 1) \div 3) \div decodeWidth
            x == ((o - 1) \div 3) % decodeWidth
            line == frame.sourceYToTargets[y] - y0
        IN IF line \in 0..(linesInBlock - 1)
             THEN Float32Store(readValueAt(uncompressed, frame.header.channels,
                                           frame.header.width, read[((o - 1) % 3) + 1],
                                           sourceIndex(x, frame.header.width, decodeWidth),
                                           line))
             ELSE out[o]]

\* One pass of the block loop.
decodeEXRBlock ==
  /\ ret # NoCall /\ ~ret.done
  /\ ret.blockIndex < ret.blocks
  /\ LET blockOffset == ret.offsets[ret.blockIndex + 1]
         y == readInt32LE(arg.buffer, blockOffset)
         size == readInt32LE(arg.buffer, blockOffset + 4)
         dataStart == blockOffset + 8
         dataEnd == dataStart + size
         y0 == y - ret.header.dataMinY
         linesInBlock == Min(blockLines(ret.header.compression), ret.header.height - y0)
         compressed == SubSeq(arg.buffer, dataStart + 1, dataEnd)
         expectedBytes ==
           channelBaseWithinLine(ret.header.channels, ret.header.width,
                                 Len(ret.header.channels)) * linesInBlock
         Fails(failure) == ret' = [ret EXCEPT !.done = TRUE, !.outcome = failure]
         Sampled(uncompressed, order) ==
           ret' = [ret EXCEPT
                     !.blockIndex = @ + 1,
                     !.zipTransform = IF order = "none" THEN @ ELSE order,
                     !.orders = Append(@, order),
                     !.out = sampleLines(ret.out, uncompressed, y0, linesInBlock, ret,
                                         arg.decodeWidth)]
     IN IF blockSkipped(blockOffset, Len(arg.buffer))
          THEN ret' = [ret EXCEPT !.blockIndex = @ + 1, !.orders = Append(@, "skipped")]
        ELSE IF blockOffset + 8 > Len(arg.buffer)
          THEN Fails(Throw("Offset is outside the bounds of the DataView"))
        ELSE IF dataEnd > Len(arg.buffer) THEN Fails(Throw("Invalid EXR chunk size"))
        ELSE IF size < 0 THEN Fails(Throw("Invalid typed array length"))
        ELSE IF ret.header.compression = "none"
          THEN (IF Len(compressed) # expectedBytes
                  THEN Fails(Throw("Invalid EXR chunk size"))
                  ELSE \E uncompressed \in {compressed} : Sampled(uncompressed, "none"))
        ELSE \E inflated \in {decompressDeflate(compressed)} :
               IF ~inflated.ok THEN Fails(inflated)
               ELSE IF Len(inflated.bytes) # expectedBytes
                 THEN Fails(Throw("Invalid EXR chunk size"))
               ELSE \E order \in {zipTransform(ret.zipTransform, inflated.bytes,
                                               linesInBlock, ret.header.channels,
                                               ret.header.width)} :
                      \E uncompressed \in
                           {IF order = "predictor-then-unshuffle"
                              THEN unshuffle(reversePredictor(inflated.bytes))
                              ELSE reversePredictor(unshuffle(inflated.bytes))} :
                        Sampled(uncompressed, order)
  /\ UNCHANGED <<protoVars, sizeVars, arg>>

\* The block loop is over: the result is returned.
decodeEXRReturn ==
  /\ ret # NoCall /\ ~ret.done
  /\ ret.blockIndex = ret.blocks
  /\ ret' = [ret EXCEPT !.done = TRUE,
               !.outcome = [ok |-> TRUE,
                            value |-> [format |-> "exr", width |-> ret.header.width,
                                       height |-> ret.header.height,
                                       decodeWidth |-> arg.decodeWidth,
                                       decodeHeight |-> arg.decodeHeight,
                                       data |-> ret.out]]]
  /\ UNCHANGED <<protoVars, sizeVars, arg>>

\* A file as a writer stores it.  `file` gives the compression byte, the
\* order of the writer's two transforms ("predictor-then-unshuffle" is to
\* be undone in that order), the first line of the data window, the
\* channels, the width and the bytes of every line (channel after channel).
\* The blocks of `skipped` have the offset 0, the length of the file or
\* 2^32 in the offset table; `fault` damages the last block; `earlier` is
\* the order of the transforms that the call before this one decided on.
EXRFileInput(file, decodeWidth, decodeHeight, skipped, skipKind, fault) ==
  LET height == Len(file.rows)
      lines == IF file.compression = 3 THEN 16 ELSE 1
      blocks == (height + lines - 1) \div lines
      RECURSIVE Flatten(_)
      Flatten(seqs) == IF seqs = <<>> THEN <<>> ELSE Head(seqs) \o Flatten(Tail(seqs))
      raw(i) == Flatten(SubSeq(file.rows, i * lines + 1, Min(height, (i + 1) * lines)))
      shuffle(d) == [i \in 1..Len(d) |->
                       IF i <= (Len(d) + 1) \div 2 THEN d[2 * i - 1]
                       ELSE d[2 * (i - (Len(d) + 1) \div 2)]]
      predict(d) == [i \in 1..Len(d) |->
                       IF i = 1 THEN d[1] ELSE (d[i] + 384 - d[i - 1]) % 256]
      RECURSIVE Adler(_, _, _, _)
      Adler(d, i, a, b) ==
        IF i > Len(d) THEN <<b \div 256, b % 256, a \div 256, a % 256>>
        ELSE Adler(d, i + 1, (a + d[i]) % 65521, (b + a + d[i]) % 65521)
      deflate(d) == <<120, 1, 1, Len(d) % 256, Len(d) \div 256, 255 - (Len(d) % 256),
                      255 - (Len(d) \div 256)>> \o d \o Adler(d, 1, 1, 0)
      cut(d, i) == IF i = blocks - 1 /\ fault \in {"stored", "inflated"}
                     THEN SubSeq(d, 1, Len(d) - 1) ELSE d
      payload(i) ==
        IF file.compression = 0 THEN cut(raw(i), i)
        ELSE IF file.order = "predictor-then-unshuffle"
          THEN deflate(cut(predict(shuffle(raw(i))), i))
          ELSE deflate(cut(shuffle(predict(raw(i))), i))
      block(i) ==
        Int32LE(file.minY + i * lines)
          \o Int32LE(Len(payload(i)) + (IF i = blocks - 1 /\ fault = "past end" THEN 1 ELSE 0))
          \o payload(i)
      header == EXRHeaderInput(20000630, FALSE, file.compression,
                               [minX |-> 0, minY |-> file.minY, maxX |-> file.width - 1,
                                maxY |-> file.minY + height - 1],
                               file.channels, FALSE)
      data == Flatten([i \in 1..blocks |-> block(i - 1)])
      start(i) == header.end + 8 * blocks + Len(Flatten([j \in 1..i |-> block(j - 1)]))
      length == header.end + 8 * blocks + Len(data)
      entry(i) ==
        IF i \notin skipped THEN Int32LE(start(i)) \o <<0, 0, 0, 0>>
        ELSE IF skipKind = "zero" THEN <<0, 0, 0, 0, 0, 0, 0, 0>>
        ELSE IF skipKind = "end" THEN Int32LE(length) \o <<0, 0, 0, 0>>
        ELSE <<0, 0, 0, 0, 1, 0, 0, 0>>
  IN [from |-> "file",
      buffer |-> SubSeq(header.buffer, 1, header.end)
                   \o Flatten([i \in 1..blocks |-> entry(i - 1)]) \o data,
      decodeWidth |-> decodeWidth, decodeHeight |-> decodeHeight,
      file |-> file, skipped |-> skipped, fault |-> fault, lines |-> lines,
      earlier |-> "null"]

\* Files of half and float channels, uncompressed and compressed in either
\* order of the transforms.
EXRFiles ==
  LET bgr == <<Channel(<<66>>, 1), Channel(<<71>>, 1), Channel(<<82>>, 1)>>
      y == <<Channel(<<89>>, 1)>>
      line(l) == [i \in 1..12 |->
                    IF i % 2 = 0 THEN 60 ELSE 16 * l + ((i - 1) \div 2)]
  IN { [compression |-> 0, order |-> "none", minY |-> 1, channels |-> bgr, width |-> 2,
        rows |-> <<line(0), line(1), line(2)>>],
       [compression |-> 2, order |-> "unshuffle-then-predictor", minY |-> 0,
        channels |-> y, width |-> 2, rows |-> <<<<0, 0, 124, 0>>, <<0, 0, 60, 0>>>>],
       [compression |-> 2, order |-> "predictor-then-unshuffle", minY |-> 0,
        channels |-> y, width |-> 2, rows |-> <<<<0, 0, 1, 0>>, <<0, 124, 60, 0>>>>],
       [compression |-> 3, order |-> "predictor-then-unshuffle", minY |-> 0 - 2,
        channels |-> bgr, width |-> 2, rows |-> <<line(0), line(1)>>],
       [compression |-> 3, order |-> "predictor-then-unshuffle", minY |-> 0,
        channels |-> y, width |-> 1, rows |-> [l \in 1..17 |-> <<l, 60>>]],
       [compression |-> 0, order |-> "none", minY |-> 0,
        channels |-> <<Channel(<<90>>, 2)>>, width |-> 2,
        rows |-> <<<<0, 0, 128, 63, 0, 0, 32, 64>>>>] }

\* The files whole, with skipped blocks and with a damaged last block, each
\* with decode sizes.
EXRFileInputs ==
  UNION { { EXRFileInput(f, s[1], s[2], {}, "zero", fault) :
              s \in {<<f.width, Len(f.rows)>>, <<1, 1>>, <<1, (Len(f.rows) + 1) \div 2>>},
              fault \in {"none", "stored", "inflated", "past end"} } : f \in EXRFiles }
    \cup { EXRFileInput(f, f.width, Len(f.rows), skipped, kind, "none") :
             f \in EXRFiles, skipped \in {{0}, {1}, {0, 1}, {2}},
             kind \in {"zero", "end", "far"} }

\* Another call of decodeEXRToFloatRGB starts, on one of the zips files,
\* with locals of its own; `earlier` records the order the call before it
\* had decided on.
decodeEXRAgain ==
  /\ ret # NoCall /\ ret.done
  /\ \E f \in {g \in EXRFiles : g.compression = 2} :
       arg' = [EXRFileInput(f, f.width, Len(f.rows), {}, "zero", "none")
                 EXCEPT !.earlier = ret.zipTransform]
  /\ ret' = NoCall
  /\ UNCHANGED <<protoVars, sizeVars>>

\* ---- The panorama viewer component (part_000) ----
\* The component's refs and module-level variables are the fields of `ret`;
\* `arg` holds what the device decides: whether the canvas gives WebGL2 and
\* the quality chosen at setup.  Handlers run to completion; the
\* continuation of a promise that is rejected inside a handler is a
\* microtask, and no task starts while a microtask is waiting.

\* The most calls of loadPanorama in a run of the model.
MaxRuns == 3

\* The most changes of exposure, tone mapping and gamma.
MaxChanges == 2

\* toneMapping, exposure and gamma (in tenths) after setup.
DefaultSettings == [exposure |-> 0, toneMapping |-> "aces", gamma |-> 22]

ToneSettings ==
  { DefaultSettings,
    [exposure |-> 1, toneMapping |-> "aces", gamma |-> 22],
    [exposure |-> 0, toneMapping |-> "linear", gamma |-> 10] }

setError(v, message) == [v EXCEPT !.hasError = TRUE, !.errorMessage = message]

scheduleRender(v) == IF v.renderer = 0 THEN v ELSE [v EXCEPT !.rafId = TRUE]

\* renderer?.setTextureRGB16F / setTextureRGBA8 with the result of a
\* request of `owner`: the renderer's textureKind is set; the upload is
\* recorded with the renderer it went to.
setTexture(v, owner, of, kind) ==
  IF v.renderer = 0 THEN v
  ELSE [v EXCEPT !.textureKind = kind,
                 !.uploads = @ \cup {[renderer |-> v.renderer, owner |-> owner, of |-> of,
                                      kind |-> kind]}]

\* decoder.decode(request) on the decoder `d`: the request joins the
\* pending requests.
submit(v, d, owner, of, kind, quality) ==
  [v EXCEPT !.pending = @ \cup {[owner |-> owner, of |-> of, decoder |-> d, kind |-> kind,
                                 quality |-> quality, settings |-> v.settings]}]

\* cleanup(): the download is aborted (its promise never settles), the
\* decoder is terminated (the pending promises are rejected, and their
\* continuations wait as microtasks; what they do does not depend on their
\* order), renderer and frame are released, isReady and the error are
\* cleared.
cleanup(v) ==
  LET hit == {r \in v.pending : v.decoder # 0 /\ r.decoder = v.decoder}
      RECURSIVE InOrder(_)
      InOrder(rs) == IF rs = {} THEN <<>>
                     ELSE LET r == CHOOSE x \in rs : TRUE IN <<r>> \o InOrder(rs \ {r})
  IN [v EXCEPT
        !.runs = [i \in 1..Len(@) |->
                    IF i = v.xhr /\ @[i].pc = "download"
                      THEN [@[i] EXCEPT !.pc = "ended"] ELSE @[i]],
        !.xhr = 0,
        !.sourceBuffer = 0,
        !.isRgba8Path = FALSE,
        !.pending = @ \ hit,
        !.microtasks = @ \o InOrder(hit),
        !.decoder = 0,
        !.renderer = 0,
        !.textureKind = "none",
        !.rafId = FALSE,
        !.isReady = FALSE,
        !.hasError = FALSE,
        !.errorMessage = "undefined"]

\* loadPanorama up to its first await: cleanup, initRenderer, the request
\* is sent.
loadPanorama(v) ==
  LET c == cleanup(v)
  IN [c EXCEPT
        !.renderer = c.renderers + 1,
        !.renderers = @ + 1,
        !.runs = Append(@, [pc |-> "download", renderer |-> c.renderers + 1,
                            targetKind |-> "none", localDecoder |-> 0,
                            localRenderer |-> 0]),
        !.xhr = Len(c.runs) + 1]

onMounted ==
  /\ arg.from = "viewer" /\ ~ret.mounted
  /\ ret' = [loadPanorama(ret) EXCEPT !.mounted = TRUE]
  /\ UNCHANGED <<protoVars, sizeVars, arg>>

\* props.src or props.format changes: the watcher of line 352 and the
\* watcher of line 442 each call loadPanorama, in the same flush.
watchSource ==
  /\ arg.from = "viewer" /\ ret.mounted /\ ret.microtasks = <<>>
  /\ Len(ret.runs) + 2 <= MaxRuns
  /\ ret' = loadPanorama(loadPanorama(ret))
  /\ UNCHANGED <<protoVars, sizeVars, arg>>

watchQuality ==
  /\ arg.from = "viewer" /\ ret.mounted /\ ret.microtasks = <<>>
  /\ Len(ret.runs) < MaxRuns
  /\ \E q \in {"low", "high"} \ {ret.quality} :
       ret' = loadPanorama([ret EXCEPT !.quality = q])
  /\ UNCHANGED <<protoVars, sizeVars, arg>>

\* The download of the current request ends and loadPanorama goes on to its
\* first decode() (outcome "ok"), stops at the validation ("invalid") or is
\* rejected ("failed").
loadPanoramaDownloaded(outcome) ==
  /\ arg.from = "viewer" /\ ret.microtasks = <<>>
  /\ ret.xhr # 0 /\ ret.runs[ret.xhr].pc = "download"
  /\ LET run == ret.xhr
         wantsFloat == ret.renderer # 0 /\ arg.webgl2
         targetKind == IF wantsFloat THEN "rgb16f" ELSE "rgba8"
         loaded == [ret EXCEPT !.xhr = 0, !.sourceBuffer = run]
         started == [loaded EXCEPT
                       !.isRgba8Path = ~wantsFloat,
                       !.decoder = loaded.decoders + 1,
                       !.decoders = @ + 1,
                       !.runs[run].pc = "decode",
                       !.runs[run].targetKind = targetKind]
     IN ret' =
          IF outcome = "failed"
            THEN setError([ret EXCEPT !.runs[run].pc = "ended"], "Failed to load panorama")
          ELSE IF outcome = "invalid"
            THEN setError([loaded EXCEPT !.runs[run].pc = "ended"], "validation")
          ELSE submit(started, started.decoder, "low", run, targetKind, "low")
  /\ UNCHANGED <<protoVars, sizeVars, arg>>

\* The worker answers the low-tier request (or the fallback request) of a
\* loadPanorama run and the run goes on: upload, isReady, the refinement is
\* left to an idle callback.
loadPanoramaDecoded(req, outcome) ==
  /\ arg.from = "viewer" /\ ret.microtasks = <<>>
  /\ req \in ret.pending
  /\ req.owner \in {"low", "fallback"}
  /\ LET run == req.of
         settled == [ret EXCEPT !.pending = @ \ {req}]
         uploaded == setTexture(settled, req.owner, run, req.kind)
         shown == scheduleRender([uploaded EXCEPT
                                    !.isRgba8Path = IF req.owner = "fallback" THEN TRUE ELSE @,
                                    !.isReady = TRUE])
     IN ret' =
          IF outcome = "error"
            THEN setError([settled EXCEPT !.runs[run].pc = "ended"], "decode error")
          ELSE IF req.kind = "rgb16f" /\ settled.renderer # 0 /\ ~arg.webgl2
            THEN submit(settled, settled.decoder, "fallback", run, "rgba8", "low")
          ELSE IF shown.quality = "low"
            THEN [shown EXCEPT !.runs[run].pc = "ended"]
          ELSE [shown EXCEPT !.runs[run].pc = "idle",
                             !.runs[run].localDecoder = shown.decoder,
                             !.runs[run].localRenderer = shown.renderer]
  /\ UNCHANGED <<protoVars, sizeVars, arg>>

\* The idle callback of a run: runRefine up to its await.  decode() uses
\* the variable `decoder`, not localDecoder.
runRefine(run) ==
  /\ arg.from = "viewer" /\ ret.microtasks = <<>>
  /\ run \in 1..Len(ret.runs) /\ ret.runs[run].pc = "idle"
  /\ ret' =
       IF ret.decoder = 0 THEN [ret EXCEPT !.runs[run].pc = "ended"]
       ELSE submit([ret EXCEPT !.runs[run].pc = "refining"], ret.decoder, "refine", run,
                   ret.runs[run].targetKind, ret.quality)
  /\ UNCHANGED <<protoVars, sizeVars, arg>>

runRefineSettled(req, outcome) ==
  /\ arg.from = "viewer" /\ ret.microtasks = <<>>
  /\ req \in ret.pending /\ req.owner = "refine"
  /\ LET run == ret.runs[req.of]
         settled == [ret EXCEPT !.pending = @ \ {req}, !.runs[req.of].pc = "ended"]
     IN ret' =
          IF outcome = "error" \/ settled.decoder # run.localDecoder
               \/ settled.renderer # run.localRenderer
            THEN settled
          ELSE scheduleRender(setTexture(settled, "refine", req.of, req.kind))
  /\ UNCHANGED <<protoVars, sizeVars, arg>>

\* The body of watch([toneMapping, exposure, gamma]) that re-renders and
\* schedules a decode whatever the texture is.
toneMappingChangedAlwaysDecodes(v) ==
  IF ~v.isReady THEN v
  ELSE IF v.sourceBuffer = 0 \/ v.renderer = 0 THEN v
  ELSE [v EXCEPT !.updates = Append(@, [pc |-> "scheduled", localBuffer |-> v.sourceBuffer,
                                        localRenderer |-> v.renderer])]

\* The body of watch([toneMapping, exposure, gamma]).
toneMappingChanged(v) ==
  IF ~v.isReady THEN v
  ELSE IF ~v.isRgba8Path THEN scheduleRender(v)
  ELSE IF v.sourceBuffer = 0 \/ v.renderer = 0 THEN v
  ELSE [v EXCEPT !.updates = Append(@, [pc |-> "scheduled", localBuffer |-> v.sourceBuffer,
                                        localRenderer |-> v.renderer])]

watchToneMapping(s) ==
  /\ arg.from = "viewer" /\ ret.microtasks = <<>>
  /\ ret.changes < MaxChanges
  /\ s \in ToneSettings \ {ret.settings}
  /\ ret' = toneMappingChanged([ret EXCEPT !.settings = s, !.changes = @ + 1])
  /\ UNCHANGED <<protoVars, sizeVars, arg>>

\* The idle callback of the watcher: `run` up to its await.
updateRun(w) ==
  /\ arg.from = "viewer" /\ ret.microtasks = <<>>
  /\ w \in 1..Len(ret.updates) /\ ret.updates[w].pc = "scheduled"
  /\ LET made == IF ret.decoder # 0 THEN ret
                 ELSE [ret EXCEPT !.decoder = ret.decoders + 1, !.decoders = @ + 1]
     IN ret' = submit([made EXCEPT !.updates[w].pc = "decoding"], made.decoder, "update", w,
                      "rgba8", "low")
  /\ UNCHANGED <<protoVars, sizeVars, arg>>

updateRunSettled(req, outcome) ==
  /\ arg.from = "viewer" /\ ret.microtasks = <<>>
  /\ req \in ret.pending /\ req.owner = "update"
  /\ LET settled == [ret EXCEPT !.pending = @ \ {req}, !.updates[req.of].pc = "ended"]
     IN ret' =
          IF outcome = "error" \/ settled.renderer = 0
               \/ settled.renderer # ret.updates[req.of].localRenderer
            THEN settled
          ELSE scheduleRender(setTexture(settled, "update", req.of, "rgba8"))
  /\ UNCHANGED <<protoVars, sizeVars, arg>>

\* The continuation of a decode() promise that terminate() has rejected:
\* loadPanorama is rejected and its caller's catch sets the error; runRefine
\* and the watcher's run swallow it.
decodeRejected ==
  /\ arg.from = "viewer" /\ ret.microtasks # <<>>
  /\ LET r == Head(ret.microtasks)
         next == [ret EXCEPT !.microtasks = Tail(@)]
     IN ret' =
          IF r.owner \in {"low", "fallback"}
            THEN setError([next EXCEPT !.runs[r.of].pc = "ended"], "Decoder terminated")
          ELSE IF r.owner = "refine" THEN [next EXCEPT !.runs[r.of].pc = "ended"]
          ELSE [next EXCEPT !.updates[r.of].pc = "ended"]
  /\ UNCHANGED <<protoVars, sizeVars, arg>>

\* The frame requested by scheduleRender is rendered.
animationFrame ==
  /\ arg.from = "viewer" /\ ret.microtasks = <<>>
  /\ ret.rafId
  /\ ret' = [ret EXCEPT !.rafId = FALSE]
  /\ UNCHANGED <<protoVars, sizeVars, arg>>

\* ---- The server's task queue (pipeline-queue/manager.ts) ----
\* `ret.tasks` is the pipeline_queue table (the row of task id is
\* tasks[id]), `ret.now` is Date.now() in milliseconds, `ret.current` the
\* task that processNextTask holds (0 for none) and `ret.last` the
\* arguments of the last markTaskFailed; `arg.platform` is process.platform.

\* The most rows of the table.
MaxTasks == 2

\* The last value of the clock, in milliseconds.
MaxNow == 2000

isWindowsFileAccessErrorCode(code) ==
  IF arg.platform # "win32" THEN FALSE ELSE code \in {"EPERM", "EACCES", "EBUSY"}

addTask(priority, maxAttempts) ==
  /\ arg.from = "queue"
  /\ Len(ret.tasks) < MaxTasks
  /\ ret' = [ret EXCEPT !.tasks = Append(@, [status |-> "pending", attempts |-> 0,
                                              maxAttempts |-> maxAttempts,
                                              priority |-> priority,
                                              createdAt |-> ret.now,
                                              errorMessage |-> "null"])]
  /\ UNCHANGED <<protoVars, sizeVars, arg>>

\* where status = 'pending' order by priority desc, createdAt asc limit 1:
\* the rows that can come first (rows that tie come in either order).
firstPending(tasks, now) ==
  {t \in 1..Len(tasks) :
     /\ tasks[t].status = "pending"
     /\ \A u \in 1..Len(tasks) :
          tasks[u].status = "pending" =>
            \/ tasks[u].priority < tasks[t].priority
            \/ tasks[u].priority = tasks[t].priority
                 /\ tasks[u].createdAt >= tasks[t].createdAt}

\* processNextTask up to the processor: getNextTask locks the first pending
\* task, if there is one.
getNextTask ==
  /\ arg.from = "queue"
  /\ ~ret.isProcessing
  /\ firstPending(ret.tasks, ret.now) # {}
  /\ \E t \in firstPending(ret.tasks, ret.now) :
       ret' = [ret EXCEPT !.tasks[t].status = "in-stages", !.current = t,
                          !.isProcessing = TRUE]
  /\ UNCHANGED <<protoVars, sizeVars, arg>>

\* The processor has returned: markTaskCompleted, isProcessing = false.
markTaskCompleted ==
  /\ arg.from = "queue"
  /\ ret.current # 0
  /\ ret' = [ret EXCEPT !.tasks[ret.current].status = "completed", !.current = 0,
                        !.isProcessing = FALSE]
  /\ UNCHANGED <<protoVars, sizeVars, arg>>

\* The processor has thrown: markTaskFailed(task.id, message, isRetryable,
\* errorCode), isProcessing = false.
markTaskFailed(isRetryable, errorCode) ==
  /\ arg.from = "queue"
  /\ ret.current # 0
  /\ LET task == ret.tasks[ret.current]
         newAttempts == task.attempts + 1
         targetMaxAttempts ==
           IF isRetryable /\ isWindowsFileAccessErrorCode(errorCode)
             THEN Max(task.maxAttempts, 20) ELSE task.maxAttempts
         shouldRetry == isRetryable /\ newAttempts < targetMaxAttempts
         retryDelay ==
           IF shouldRetry
             THEN Min(1000 * 2 ^ (newAttempts - 1),
                      IF isWindowsFileAccessErrorCode(errorCode) THEN 60000 ELSE 30000)
             ELSE 0
     IN ret' = [ret EXCEPT
                  !.tasks[ret.current] =
                    [task EXCEPT
                       !.status = IF shouldRetry THEN "pending" ELSE "failed",
                       !.attempts = newAttempts,
                       !.maxAttempts = targetMaxAttempts,
                       !.errorMessage = "error",
                       !.createdAt = IF shouldRetry /\ retryDelay > 0
                                       THEN ret.now + retryDelay ELSE @],
                  !.last = [isRetryable |-> isRetryable, errorCode |-> errorCode],
                  !.current = 0,
                  !.isProcessing = FALSE]
  /\ UNCHANGED <<protoVars, sizeVars, arg>>

\* A second passes.
clock ==
  /\ arg.from = "queue"
  /\ ret.now < MaxNow
  /\ ret' = [ret EXCEPT !.now = @ + 1000]
  /\ UNCHANGED <<protoVars, sizeVars, arg>>

Init ==
  /\ ProtoInit
  /\ sizeIn = [width |-> 4096, height |-> 2048, quality |-> "low", maxTextureSize |-> 4096]
  /\ sizeOut = NoSize
  /\ arg = NoCall
  /\ ret = NoCall

Next ==
  \/ \E id \in Ids, payload \in Payloads : decode(id, payload)
  \/ onmessage
  \/ terminate
  \/ workerOnMessage
  \/ \E req \in suspended : workerResume(req)

Spec == Init /\ [][Next]_vars

\* The size policy alone, over every input of SizeInputs.
SizeInit ==
  /\ ProtoInit
  /\ sizeIn \in SizeInputs
  /\ sizeOut = NoSize
  /\ arg = NoCall
  /\ ret = NoCall

SizeNext == workerSize

SizeSpec == SizeInit /\ [][SizeNext]_vars

\* The client and the worker without terminate(), under the scheduling the
\* event loops give: a queued message is eventually dispatched and a
\* waiting handler is eventually resumed.
LiveNext ==
  \/ \E id \in Ids, payload \in Payloads : decode(id, payload)
  \/ onmessage
  \/ workerOnMessage
  \/ \E req \in suspended : workerResume(req)

LiveSpec ==
  /\ Init
  /\ [][LiveNext]_vars
  /\ WF_vars(onmessage)
  /\ WF_vars(workerOnMessage)
  /\ WF_vars(\E req \in suspended : workerResume(req))

\* The half-float codec alone: floatToHalf on the float patterns, and
\* halfToFloat followed by floatToHalf on every half.
HalfInit ==
  /\ ProtoInit
  /\ sizeIn = [width |-> 4096, height |-> 2048, quality |-> "low", maxTextureSize |-> 4096]
  /\ sizeOut = NoSize
  /\ arg \in HalfInputs
  /\ ret = NoCall

HalfNext == callHalfToFloat \/ callFloatToHalf

HalfSpec == HalfInit /\ [][HalfNext]_vars

\* The worker's result construction alone.
PackInit ==
  /\ ProtoInit
  /\ sizeIn = [width |-> 4096, height |-> 2048, quality |-> "low", maxTextureSize |-> 4096]
  /\ sizeOut = NoSize
  /\ arg \in PackInputs
  /\ ret = NoCall

PackNext == workerResult

PackSpec == PackInit /\ [][PackNext]_vars

\* readHDRMetadata alone.
HeaderInit ==
  /\ ProtoInit
  /\ sizeIn = [width |-> 4096, height |-> 2048, quality |-> "low", maxTextureSize |-> 4096]
  /\ sizeOut = NoSize
  /\ arg \in HeaderInputs
  /\ ret = NoCall

HeaderNext == callReadHDRMetadata

HeaderSpec == HeaderInit /\ [][HeaderNext]_vars

\* decodeScanline alone, on encoded scanlines.
ScanlineInit ==
  /\ ProtoInit
  /\ sizeIn = [width |-> 4096, height |-> 2048, quality |-> "low", maxTextureSize |-> 4096]
  /\ sizeOut = NoSize
  /\ arg \in ScanlineInputs
  /\ ret = NoCall

ScanlineNext == callDecodeScanline

ScanlineSpec == ScanlineInit /\ [][ScanlineNext]_vars

\* decodeHDRToFloatRGB alone, on whole and on truncated files.
HDRInit ==
  /\ ProtoInit
  /\ sizeIn = [width |-> 4096, height |-> 2048, quality |-> "low", maxTextureSize |-> 4096]
  /\ sizeOut = NoSize
  /\ arg \in HDRInputs
  /\ ret = NoCall

HDRNext == decodeHDRBegin \/ decodeHDRScanline \/ decodeHDRReturn

HDRSpec == HDRInit /\ [][HDRNext]_vars

\* The OpenEXR header parser and the channel selection, each alone.
EXRInit ==
  /\ ProtoInit
  /\ sizeIn = [width |-> 4096, height |-> 2048, quality |-> "low", maxTextureSize |-> 4096]
  /\ sizeOut = NoSize
  /\ arg \in EXRHeaderInputs \cup ChannelInputs
  /\ ret = NoCall

EXRNext == callParseHeader \/ callSelectChannels

EXRSpec == EXRInit /\ [][EXRNext]_vars

\* decodeEXRToFloatRGB alone, call after call.
EXRFileInit ==
  /\ ProtoInit
  /\ sizeIn = [width |-> 4096, height |-> 2048, quality |-> "low", maxTextureSize |-> 4096]
  /\ sizeOut = NoSize
  /\ arg \in EXRFileInputs
  /\ ret = NoCall

EXRFileNext == decodeEXRBegin \/ decodeEXRBlock \/ decodeEXRReturn \/ decodeEXRAgain

EXRFileSpec == EXRFileInit /\ [][EXRFileNext]_vars

\* The viewer component from its setup on.
ViewerInit ==
  /\ ProtoInit
  /\ sizeIn = [width |-> 4096, height |-> 2048, quality |-> "low", maxTextureSize |-> 4096]
  /\ sizeOut = NoSize
  /\ arg \in [from : {"viewer"}, webgl2 : BOOLEAN]
  /\ ret = [mounted |-> FALSE, isReady |-> FALSE, hasError |-> FALSE,
            errorMessage |-> "undefined", settings |-> DefaultSettings,
            quality |-> "high", renderer |-> 0, renderers |-> 0, decoder |-> 0,
            decoders |-> 0, xhr |-> 0, sourceBuffer |-> 0, isRgba8Path |-> FALSE,
            rafId |-> FALSE, textureKind |-> "none", runs |-> <<>>, pending |-> {},
            updates |-> <<>>, uploads |-> {}, microtasks |-> <<>>, changes |-> 0]

ViewerNext ==
  \/ onMounted
  \/ watchSource
  \/ watchQuality
  \/ \E outcome \in {"ok", "invalid", "failed"} : loadPanoramaDownloaded(outcome)
  \/ \E req \in ret.pending, outcome \in {"result", "error"} :
       loadPanoramaDecoded(req, outcome)
  \/ \E run \in 1..Len(ret.runs) : runRefine(run)
  \/ \E req \in ret.pending, outcome \in {"result", "error"} :
       runRefineSettled(req, outcome)
  \/ \E s \in ToneSettings : watchToneMapping(s)
  \/ \E w \in 1..Len(ret.updates) : updateRun(w)
  \/ \E req \in ret.pending, outcome \in {"result", "error"} :
       updateRunSettled(req, outcome)
  \/ decodeRejected
  \/ animationFrame

ViewerSpec == ViewerInit /\ [][ViewerNext]_vars

\* The task queue with one worker.
QueueInit ==
  /\ ProtoInit
  /\ sizeIn = [width |-> 4096, height |-> 2048, quality |-> "low", maxTextureSize |-> 4096]
  /\ sizeOut = NoSize
  /\ arg \in [from : {"queue"}, platform : {"linux", "win32"}]
  /\ ret = [tasks |-> <<>>, now |-> 0, isProcessing |-> FALSE, current |-> 0,
            last |-> [isRetryable |-> TRUE, errorCode |-> "undefined"]]

QueueNext ==
  \/ \E priority \in {0, 1}, maxAttempts \in {1, 3} : addTask(priority, maxAttempts)
  \/ getNextTask
  \/ markTaskCompleted
  \/ \E isRetryable \in BOOLEAN, errorCode \in {"undefined", "EBUSY"} :
       markTaskFailed(isRetryable, errorCode)
  \/ clock

QueueSpec == QueueInit /\ [][QueueNext]_vars

(***************************************************************************)
(* Properties                                                              *)
(***************************************************************************)
Settled(s) == promise[s].state \in {"fulfilled", "rejected"}
Superseded == Error("Decode request replaced")
Terminated == Error("Decoder terminated")

\* C1: a promise that a worker response settles is settled by the response
\* to its own request, never by the response to a request it superseded.
C1_StaleResponseDiscarded ==
  \A s \in Seqs : promise[s].by # 0 => promise[s].by = s

\* C2: decode(r) with an entry for r.id in the table rejects the earlier
\* promise with 'Decode request replaced' in that very call, and leaves the
\* table with the new request's entry for that id, its message posted.
C2_DecodeSupersedes ==
  [][nextSeq' = nextSeq + 1 =>
      LET new == nextSeq
          id == promise'[new].id
          old == pending[id]
      IN /\ old # 0 =>
              /\ promise[old].state = "pending"
              /\ promise'[old].state = "rejected"
              /\ promise'[old].value = Superseded
              /\ promise'[old].by = 0
         /\ pending'[id] = new
         /\ \A i \in Ids \ {id} : pending'[i] = pending[i]
         /\ promise'[new].state = "pending"
         /\ Len(toWorker') = Len(toWorker) + 1
         /\ toWorker'[Len(toWorker')].id = id
         /\ toWorker'[Len(toWorker')].seq = new]_vars

\* A request was superseded before the worker answered anything.
C2_Witness ==
  \E s, t \in Seqs :
    /\ s < t
    /\ promise[s].value = Superseded
    /\ pending[promise[s].id] = t
    /\ promise[t].state = "pending"
    /\ \A u \in Seqs : answered[u] = 0

\* C3: without terminate() and with a worker that answers every message,
\* every promise decode() returned is settled, and settled once: fulfilled
\* with a result, rejected with a worker error, or rejected as superseded.
\* (A settled promise stays settled, so "none stays pending forever" is
\* "from some point on none is pending".)
C3_SettledExactlyOnce ==
  /\ [](\A s \in Seqs :
          /\ promise[s].calls <= 1
          /\ promise[s].state = "fulfilled" =>
               "kind" \in DOMAIN promise[s].value /\ promise[s].by # 0
          /\ promise[s].state = "rejected" =>
               \/ promise[s].value = Superseded /\ promise[s].by = 0
               \/ promise[s].value # Superseded /\ promise[s].by # 0)
  /\ <>[](\A s \in Seqs : promise[s].state # "pending")

\* All three outcomes have happened, under interleaved requests.
C3_Witness ==
  /\ nextSeq > MaxRequests
  /\ \A s \in Seqs : Settled(s) /\ promise[s].calls = 1
  /\ \E s \in Seqs : promise[s].state = "fulfilled"
  /\ \E s \in Seqs : promise[s].value = Superseded
  /\ \E s \in Seqs : promise[s].state = "rejected" /\ promise[s].by # 0

\* C4: terminate() rejects every entry of the table with 'Decoder
\* terminated', empties the table and stops the worker at once, whatever is
\* in flight; afterwards no worker response settles a promise.  (With the
\* worker terminated, the only steps that keep nextSeq are terminate()
\* calls.)
C4_TerminateRejectsAll ==
  [][/\ (terminated' /\ nextSeq' = nextSeq) =>
          /\ \A i \in Ids : pending[i] # 0 =>
                /\ promise'[pending[i]].state = "rejected"
                /\ promise'[pending[i]].value = Terminated
          /\ \A s \in Seqs : (\A i \in Ids : pending[i] # s) => promise'[s] = promise[s]
          /\ \A i \in Ids : pending'[i] = 0
          /\ toWorker' = <<>> /\ suspended' = {} /\ toClient' = <<>>
     /\ terminated =>
          \A s \in Seqs : promise'[s].by # 0 => promise'[s] = promise[s]]_vars

\* terminate() was called with one decode waiting on its inflate stream and
\* one response posted but not delivered; a later request stays pending.
C4_Witness ==
  /\ terminated
  /\ \E s, t, u \in Seqs :
       /\ promise[s].value = Terminated /\ answered[s] = 0
       /\ promise[t].value = Terminated /\ answered[t] = 1
       /\ promise[u].state = "pending"

\* C5: a response with id X removes and settles the entry keyed X only,
\* rejecting on a message with `message` and without `kind` and fulfilling
\* otherwise; every other entry and promise is untouched, and a response
\* that matches no entry changes nothing.  (The steps that shorten toClient
\* and leave the worker running are the onmessage dispatches.)
C5_ResponseSettlesOnlyItsId ==
  [][(~terminated' /\ Len(toClient') < Len(toClient)) =>
      LET data == Head(toClient)
          entry == pending[data.id]
      IN IF entry = 0
           THEN pending' = pending /\ promise' = promise
           ELSE /\ pending'[data.id] = 0
                /\ \A i \in Ids \ {data.id} : pending'[i] = pending[i]
                /\ \A s \in Seqs \ {entry} : promise'[s] = promise[s]
                /\ promise[entry].state = "pending"
                /\ promise'[entry].state =
                     (IF "message" \in DOMAIN data /\ "kind" \notin DOMAIN data
                        THEN "rejected" ELSE "fulfilled")
                /\ promise'[entry].calls = 1]_vars

\* A response settled one entry while an entry with another id stayed
\* pending, and a response that matched no entry was dropped.
C5_Witness ==
  /\ \E s, t \in Seqs :
       /\ promise[s].by # 0
       /\ promise[t].state = "pending" /\ pending[promise[t].id] = t
       /\ promise[t].id # promise[s].id
  /\ \E u \in Seqs : answered[u] = 1 /\ promise[u].value = Superseded
                      /\ \A v \in Seqs : promise[v].by # u
  /\ toClient = <<>> /\ ~terminated

\* Whether the worker has dispatched request s / is still handling it.
Received(s) == s < nextSeq /\ \A i \in 1..Len(toWorker) : toWorker[i].seq # s
InProgress(s) == \E req \in suspended : req.seq = s

\* C6: the worker posts exactly one message per request it has handled,
\* carrying the request's id: a result when nothing threw, otherwise an
\* error with the thrown message and nothing of a result.
C6_OneAnswerPerRequest ==
  /\ \A s \in Seqs :
       /\ answered[s] <= 1
       /\ (~terminated /\ Received(s) /\ ~InProgress(s)) => answered[s] = 1
       /\ (~Received(s) \/ InProgress(s)) => answered[s] = 0 \/ terminated
  /\ \A i \in 1..Len(toClient) :
       LET m == toClient[i]
       IN /\ m.id = m.re.id
          /\ promise[m.re.seq].id = m.id
          /\ IF m.re.payload.fault = "none"
               THEN DOMAIN m = {"id", "format", "kind", "re"}
               ELSE /\ DOMAIN m = {"id", "message", "re"}
                    /\ m.message = (IF m.re.payload.format = "hdr"
                                      THEN "Unsupported HDR format"
                                      ELSE "Invalid EXR chunk size")

\* An error for one request is followed by a result for a later one.
C6_Witness ==
  \E i, j \in 1..Len(toClient) :
    /\ i < j
    /\ "message" \in DOMAIN toClient[i]
    /\ toClient[i].re.payload.fault = "pixels"
    /\ "kind" \in DOMAIN toClient[j]

\* C7: at most one request is being handled in the worker at any time, and
\* responses are posted in the order the requests arrived.
C7_OneDecodeAtATime ==
  /\ Cardinality(suspended) <= 1
  /\ \A s, t \in Seqs : (s < t /\ answered[t] > 0) => answered[s] > 0

\* C8: the maximum decode dimension lies in [256, maxTextureSize], so no
\* decode dimension exceeds maxTextureSize.
C8_MaxDimWithinTextureSize ==
  sizeOut # NoSize =>
    /\ 256 <= sizeOut.maxDim
    /\ sizeOut.maxDim <= sizeIn.maxTextureSize
    /\ sizeOut.decodeWidth <= sizeIn.maxTextureSize
    /\ sizeOut.decodeHeight <= sizeIn.maxTextureSize

\* r is an integer nearest to num / den.
IsNearest(r, num, den) == 2 * r * den - den <= 2 * num /\ 2 * num <= 2 * r * den + den

\* d = max(1, r) for an integer r nearest to n * s, s = min(1, maxDim / srcMax).
IsScaled(d, n, maxDim, srcMax) ==
  IF srcMax <= maxDim
    THEN d = n
    ELSE \/ IsNearest(d, n * maxDim, srcMax) /\ d >= 1
         \/ IsNearest(0, n * maxDim, srcMax) /\ d = 1

C10_DecodeNotLargerThanSource ==
  sizeOut # NoSize =>
    /\ 1 <= sizeOut.decodeWidth /\ sizeOut.decodeWidth <= sizeOut.width
    /\ 1 <= sizeOut.decodeHeight /\ sizeOut.decodeHeight <= sizeOut.height
    /\ sizeOut.width = sizeIn.width /\ sizeOut.height = sizeIn.height

\* A narrow source that is scaled down keeps one column.
C10_Witness ==
  /\ sizeIn = [width |-> 3, height |-> 8192, quality |-> "low", maxTextureSize |-> 4096]
  /\ sizeOut.decodeWidth = 1
  /\ sizeOut.decodeHeight = 1024

\* C11: every result has the kind of the request's target; rgb16f data has
\* decodeWidth * decodeHeight * 3 halves, rgba8 data has decodeWidth *
\* decodeHeight * 4 bytes and every fourth byte (alpha) is 255.
C11_ResultKindAndData ==
  ret # NoCall =>
    LET result == ret.result
        n == result.decodeWidth * result.decodeHeight
    IN /\ result.kind = arg.req.target.kind
       /\ result.decodeWidth = arg.decodeWidth /\ result.decodeHeight = arg.decodeHeight
       /\ result.kind = "rgb16f" =>
            /\ Len(result.data) = n * 3
            /\ \A i \in 1..(n * 3) : result.data[i] \in 0..65535
       /\ result.kind = "rgba8" =>
            /\ Len(result.data) = n * 4
            /\ \A j \in 1..(n * 4) : result.data[j] \in 0..255
            /\ \A p \in 1..n : result.data[4 * p] = 255

\* A two-pixel rgba8 result: a bright pixel and a NaN pixel, both opaque.
C11_Witness ==
  /\ ret # NoCall
  /\ arg.decodeWidth = 2 /\ arg.decodeHeight = 1
  /\ ret.result.kind = "rgba8"
  /\ ret.result.data = <<255, 255, 255, 255, 0, 0, 0, 255>>

IsNaNHalf(h) == (h \div 1024) % 32 = 31 /\ h % 1024 # 0

\* The binary16 pattern nearest to the float with bits x (not a NaN), ties
\* to the even mantissa: the float is sig * 2^(e - 23); with he the
\* exponent of the half grid it falls in, it is sig / 2^sh grid steps.
NearestEvenHalf(x) ==
  IF x.exp = 0 THEN x.sign * 32768
  ELSE LET e == x.exp - 127
           he == Max(e, 0 - 14)
           sh == 13 + he - e
           sig == 8388608 + x.mantissa
       IN IF sh >= 25 THEN x.sign * 32768
          ELSE LET n == sig \div 2 ^ sh
                   rem == sig % 2 ^ sh
                   up == rem > 2 ^ (sh - 1) \/ (rem = 2 ^ (sh - 1) /\ n % 2 = 1)
                   bits == (he + 14) * 1024 + n + (IF up THEN 1 ELSE 0)
               IN x.sign * 32768 + Min(bits, 31744)

\* C12: for every float bit pattern floatToHalf returns the binary16
\* pattern of round-to-nearest-even: ties to the even mantissa, a carry out
\* of the mantissa into the exponent (up to infinity), subnormals and
\* signed zero below the normal range, signed infinity above the half
\* range; a NaN gives a NaN.
C12_FloatToHalfNearestEven ==
  (ret # NoCall /\ arg.from = "float") =>
    IF arg.x.exp = 255 /\ arg.x.mantissa # 0
      THEN IsNaNHalf(ret.half)
      ELSE ret.half = NearestEvenHalf(arg.x)

\* C13: floatToHalf(halfToFloat(h)) = h for every half h that is not a
\* NaN, subnormals, signed zeros and infinities included, and is a NaN
\* pattern for every NaN h.
C13_HalfRoundTrip ==
  (ret # NoCall /\ arg.from = "half" /\ ret.half # 0 - 1) =>
    IF IsNaNHalf(arg.half)
      THEN IsNaNHalf(ret.half)
      ELSE ret.half = arg.half

\* The negative subnormal 0x8001 has made the round trip.
C13_Witness ==
  /\ arg.from = "half" /\ arg.half = 32769
  /\ ret # NoCall /\ ret.half = 32769
  /\ ret.value = Number("finite", 1, 1, 0 - 24)

\* C14: readHDRMetadata returns {hdr, width, height} for a header with the
\* supported FORMAT line, a blank line and a resolution line of the grammar
\* with positive dimensions; it fails with InvalidFormat when the FORMAT
\* directive is absent or has another value, and with InvalidResolution
\* when the resolution line does not match the grammar or a dimension is
\* not positive (either error when both are the case).
C14_HDRMetadataOrError ==
  ret # NoCall =>
    LET formatRight == arg.format.right
        resolutionRight == arg.blank /\ arg.resolution.grammar
        InvalidFormat == ~ret.outcome.ok /\ ret.outcome.message = "Unsupported HDR format"
        InvalidResolution ==
          ~ret.outcome.ok
            /\ ret.outcome.message \in {"Invalid HDR resolution", "Missing HDR resolution"}
    IN /\ (formatRight /\ resolutionRight) =>
            /\ ret.outcome.ok
            /\ ret.outcome.value = [format |-> "hdr", width |-> arg.resolution.width,
                                    height |-> arg.resolution.height]
       /\ (~formatRight /\ resolutionRight) => InvalidFormat
       /\ (formatRight /\ ~resolutionRight) => InvalidResolution
       /\ (~formatRight /\ ~resolutionRight) => (InvalidFormat \/ InvalidResolution)

\* C15: for every list of literal runs (count 1..128, then count bytes) and
\* repeat runs (count 129..255, then one byte for count - 128 repetitions)
\* that encodes the planes R, G, B, E of a scanline of width w behind the
\* marker (2, 2, w >> 8, w & 255), decodeScanline reproduces the bytes of
\* each plane and returns the offset of the first byte after the scanline.
C15_ScanlineRoundTrip ==
  ret # NoCall =>
    /\ ret.outcome.ok
    /\ ret.outcome.scanline =
         arg.planes[1] \o arg.planes[2] \o arg.planes[3] \o arg.planes[4]
    /\ ret.outcome.off = arg.end

\* A scanline of width 300 with repeat runs of 127 and literal runs of 128
\* has been decoded.
C15_Witness ==
  /\ ret # NoCall
  /\ arg.width = 300
  /\ arg.bytes[arg.offset + 5] = 255
  /\ ret.outcome.ok
  /\ Len(ret.outcome.scanline) = 1200
  /\ ret.outcome.off = Len(arg.bytes) - 2

\* C16: decodeHDRToFloatRGB fails with UnexpectedEof (the messages
\* "Unexpected end of HDR data" and "Unexpected end of HDR RLE") and returns
\* no pixel data whenever an old-format scanline, a count byte, a repeat
\* value or a literal run lies past the end of the buffer; its offset never
\* leaves the buffer, and a result is returned only when every scanline was
\* there.
C16_TruncatedFileFails ==
  (ret # NoCall /\ ~ret.done => ret.offset <= Len(arg.buffer))
    /\ (ret # NoCall /\ ret.done =>
          /\ ret.outcome.ok => arg.cut = 0
          /\ arg.cut > 0 =>
                /\ ~ret.outcome.ok
                /\ ret.outcome.message \in
                     {"Unexpected end of HDR data", "Unexpected end of HDR RLE"}
                /\ DOMAIN ret.outcome = {"ok", "message"})

\* A file whose last scanline lacks the final byte of a literal run has been
\* rejected after the scanlines before it were decoded.
C16_Witness ==
  /\ ret # NoCall /\ ret.done
  /\ arg.cut = 1 /\ arg.width = 8
  /\ ret.fileY = 2
  /\ ret.outcome = Throw("Unexpected end of HDR RLE")

\* The texel stored for file scanline k, column c, as written to the output.
StoredTexel(k, c) ==
  LET t == Texel(k, c)
      rgb == rgbeToLinear(t[1], t[2], t[3], t[4])
  IN <<Float32Store(rgb.r), Float32Store(rgb.g), Float32Store(rgb.b)>>

\* The texel of output row y, column x.
OutputTexel(y, x) ==
  LET o == 3 * (y * arg.decodeWidth + x)
  IN <<ret.outcome.value.data[o + 1], ret.outcome.value.data[o + 2],
       ret.outcome.value.data[o + 3]>>

ScanlineBuffer(k, width) ==
  IF width < 8 \/ width > 32767 THEN StoredScanline(k, width)
  ELSE [i \in 1..(4 * width) |-> Texel(k, (i - 1) % width)[((i - 1) \div width) + 1]]

C18_RowsAndColumnsByFloor ==
  (ret # NoCall /\ ret.done /\ ret.outcome.ok /\ arg.width >= 8) =>
    \A y \in 0..(arg.decodeHeight - 1) :
      LET srcY == (y * arg.height) \div arg.decodeHeight
          fileY == IF arg.ySign = MinusY THEN srcY ELSE arg.height - 1 - srcY
      IN /\ ret.written[y] = 1
         /\ ret.from[y] = fileY
         /\ \A x \in 0..(arg.decodeWidth - 1) :
              LET column == (x * arg.width) \div arg.decodeWidth
              IN OutputTexel(y, x) \in
                   {StoredTexel(fileY, column), StoredTexel(fileY, arg.width - 1 - column)}

\* The errors of the faults that the header of arg has.
EXRHeaderFaults ==
  (IF arg.magic # 20000630 THEN {"Invalid EXR signature"} ELSE {})
    \cup (IF arg.tiles THEN {"Tiled EXR is not supported"} ELSE {})
    \cup (IF arg.compression \notin {0 - 1, 0, 2, 3}
            THEN {"Unsupported EXR compression"} ELSE {})
    \cup (IF arg.dataWindow = Null THEN {"EXR missing dataWindow"} ELSE {})
    \cup (IF arg.channels = <<>> THEN {"EXR missing channels"} ELSE {})

\* What is returned for a header without fault.
EXRHeaderReturned ==
  /\ ret.outcome.ok
  /\ ret.outcome.value.width = arg.dataWindow.maxX - arg.dataWindow.minX + 1
  /\ ret.outcome.value.height = arg.dataWindow.maxY - arg.dataWindow.minY + 1
  /\ ret.outcome.value.channels = arg.channels
  /\ ret.outcome.value.offsetTablePos = arg.end

ChannelsOf(layer, k, folded) ==
  {i \in 0..(Len(arg.channels) - 1) :
     LET s == splitChannelName(arg.channels[i + 1].name)
     IN s.layer = layer /\ (IF folded THEN toUpperCase(s.component) ELSE s.component) = k}

\* The triples of channel positions the rule of selectChannels allows for
\* the outputs r, g and b.
Selections(folded) ==
  LET layerAt == [i \in 1..Len(arg.channels) |-> splitChannelName(arg.channels[i].name).layer]
      rgb(l) == \A k \in {<<82>>, <<71>>, <<66>>} : ChannelsOf(l, k, folded) # {}
      y(l) == ChannelsOf(l, <<89>>, folded) # {}
      firstRGB == CHOOSE i \in 1..Len(layerAt) :
                    rgb(layerAt[i]) /\ \A j \in 1..(i - 1) : ~rgb(layerAt[j])
      firstY == CHOOSE i \in 1..Len(layerAt) :
                  y(layerAt[i]) /\ \A j \in 1..(i - 1) : ~y(layerAt[j])
      triples(l) == ChannelsOf(l, <<82>>, folded) \X ChannelsOf(l, <<71>>, folded)
                      \X ChannelsOf(l, <<66>>, folded)
      greys(l) == {<<i, i, i>> : i \in ChannelsOf(l, <<89>>, folded)}
  IN IF rgb(<<>>) THEN triples(<<>>)
     ELSE IF \E i \in 1..Len(layerAt) : rgb(layerAt[i]) THEN triples(layerAt[firstRGB])
     ELSE IF y(<<>>) THEN greys(<<>>)
     ELSE IF \E i \in 1..Len(layerAt) : y(layerAt[i]) THEN greys(layerAt[firstY])
     ELSE {<<0, 0, 0>>}

\* C20: with the names split at the last '.', the outputs are R, G, B of
\* the default layer if it has all three, else R, G, B of the first layer
\* in first-seen order that has all three, else Y of the default layer,
\* else Y of the first layer that has Y, else channel 0 three times.
C20_SelectChannelsRule ==
  (ret # NoCall /\ arg.from = "channels") => ret.outputs \in Selections(FALSE)

\* C20 (amended): as C20 with the components compared after upper-casing
\* and, where a layer has a component more than once, its first channel.
C20_SelectChannelsRuleUpperCased ==
  (ret # NoCall /\ arg.from = "channels") =>
    /\ ret.outputs \in Selections(TRUE)
    /\ \A t \in Selections(TRUE) : \A k \in 1..3 : ret.outputs[k] <= t[k]

\* The channels A.R, A.G, A.B, Y have been given: layer A's channels are
\* selected over the Y of the default layer.
C20_Witness ==
  /\ ret # NoCall /\ arg.from = "channels"
  /\ Len(arg.channels) = 4
  /\ arg.channels[1].name = <<65, 46, 82>> /\ arg.channels[2].name = <<65, 46, 71>>
  /\ arg.channels[3].name = <<65, 46, 66>> /\ arg.channels[4].name = <<89>>
  /\ ret.selected = [r |-> 0, g |-> 1, b |-> 2]
  /\ ret.outputs = <<0, 1, 2>>

\* C22: a scanline of a file of width < 8 is taken as raw interleaved RGBE
\* quads: the output texel that the decoder takes from source column c of
\* the scanline is the linear conversion of its bytes 4c, 4c + 1, 4c + 2
\* and 4c + 3, with E = 0 giving (0, 0, 0).
C22_OldFormatInterleaved ==
  (ret # NoCall /\ ret.done /\ ret.outcome.ok /\ arg.width < 8) =>
    \A y \in 0..(arg.decodeHeight - 1), x \in 0..(arg.decodeWidth - 1) :
      LET srcX == sourceIndex(x, arg.width, arg.decodeWidth)
          c == IF arg.xSign = PlusX THEN srcX ELSE arg.width - 1 - srcX
          stored == StoredScanline(ret.from[y], arg.width)
          rgb == rgbeToLinear(stored[4 * c + 1], stored[4 * c + 2], stored[4 * c + 3],
                              stored[4 * c + 4])
      IN OutputTexel(y, x) =
           <<Float32Store(rgb.r), Float32Store(rgb.g), Float32Store(rgb.b)>>

\* C26: decodeHDRToFloatRGB decodes the scanlines once each and in file
\* order whatever the decode size is: after k passes of the loop the
\* scanlines 0..k-1 have been read, scanline k at the offset where the
\* file stores it, and a result is returned after all of them were read.
C26_EveryScanlineDecodedOnce ==
  (ret # NoCall /\ (ret.done => ret.outcome.ok)) =>
    LET size == Len(StoredScanline(0, arg.width))
    IN /\ Len(ret.starts) = ret.fileY
       /\ \A k \in 1..Len(ret.starts) : ret.starts[k] = arg.pixels + (k - 1) * size
       /\ ~ret.done => ret.offset = arg.pixels + ret.fileY * size
       /\ ret.done => ret.fileY = arg.height

\* An 8 x 4 file has been decoded to one row of 3 columns: the four
\* scanlines were read, 26 bytes apart, and three of them fed no row.
C26_Witness ==
  /\ ret # NoCall /\ ret.done /\ ret.outcome.ok
  /\ arg.width = 8 /\ arg.height = 4 /\ arg.decodeHeight = 1
  /\ Len(ret.starts) = 4
  /\ ret.starts[4] - ret.starts[1] = 3 * 26
  /\ ret.written = [y \in {0} |-> 1]

\* C28: once terminate() has been called, no promise of the client is left
\* pending and the pending table is empty, also after later decode() calls.
C28_DecodeAfterTerminateSettles ==
  terminated =>
    /\ \A i \in Ids : pending[i] = 0
    /\ \A s \in Seqs : promise[s].state # "pending"

\* ---- decodeEXRToFloatRGB on whole files (EXRFileSpec) ----

\* The bytes of block i as the writer laid them out: its lines one after
\* another, each line channel after channel.
StoredBlock(i) ==
  LET RECURSIVE Lines(_)
      Lines(l) == IF l > Min(Len(arg.file.rows), (i + 1) * arg.lines) THEN <<>>
                  ELSE arg.file.rows[l] \o Lines(l + 1)
  IN Lines(i * arg.lines + 1)

\* The source line, source column and channel position that output value o
\* (counted from 1) is sampled from.
SampledFrom(o) ==
  [line |-> sourceIndex(((o - 1) \div 3) \div arg.decodeWidth, Len(arg.file.rows),
                        arg.decodeHeight),
   x |-> sourceIndex(((o - 1) \div 3) % arg.decodeWidth, arg.file.width, arg.decodeWidth),
   channelPos |-> sampledChannels(selectChannels(arg.file.channels))[((o - 1) % 3) + 1]]

\* The stored value of output value o when the block is read line after
\* line: line l of the block starts at l * bytesPerLine.
LineMajorValue(o) ==
  LET s == SampledFrom(o)
      type == arg.file.channels[s.channelPos + 1].pixelType
      bytesPerLine == channelBaseWithinLine(arg.file.channels, arg.file.width,
                                            Len(arg.file.channels))
  IN Float32Store(decodePixel(StoredBlock(s.line \div arg.lines),
                              (s.line % arg.lines) * bytesPerLine
                                + channelBaseWithinLine(arg.file.channels, arg.file.width,
                                                        s.channelPos)
                                + s.x * pixelByteSize(type),
                              type))

\* The stored value of output value o when the block is read channel after
\* channel: channel k starts after all the lines of the channels before it.
ChannelMajorValue(o) ==
  LET s == SampledFrom(o)
      type == arg.file.channels[s.channelPos + 1].pixelType
      block == s.line \div arg.lines
      linesInBlock == Min(arg.lines, Len(arg.file.rows) - block * arg.lines)
  IN Float32Store(decodePixel(StoredBlock(block),
                              linesInBlock * channelBaseWithinLine(arg.file.channels,
                                                                   arg.file.width,
                                                                   s.channelPos)
                                + (s.line % arg.lines) * arg.file.width * pixelByteSize(type)
                                + s.x * pixelByteSize(type),
                              type))

\* C21: a block whose offset-table entry is zero or not inside the file is
\* passed over without an error: the call succeeds, the output rows fed by
\* such a block stay 0, and every other block is decoded exactly as it is
\* when no block is skipped (its stored values).
C21_SkippedBlocksLeaveOthersIntact ==
  (ret # NoCall /\ ret.done /\ arg.fault = "none") =>
    /\ ret.outcome.ok
    /\ \A o \in 1..Len(ret.out) :
         ret.outcome.value.data[o] =
           IF (SampledFrom(o).line \div arg.lines) \in arg.skipped
             THEN [sign |-> 0, exp |-> 0, mantissa |-> 0]
             ELSE LineMajorValue(o)

\* The order that the scores of the two candidate decodings give for
\* block i of the file: the order with the higher count of plausible
\* sampled values, predictor-then-unshuffle on a tie.
HigherScore(i) ==
  LET blockOffset == ret.offsets[i + 1]
      size == readInt32LE(arg.buffer, blockOffset + 4)
      inflated == decompressDeflate(SubSeq(arg.buffer, blockOffset + 9,
                                           blockOffset + 8 + size)).bytes
      linesInBlock == Min(arg.lines, Len(arg.file.rows) - i * arg.lines)
      a == scoreUncompressed(unshuffle(reversePredictor(inflated)), linesInBlock,
                             arg.file.channels, arg.file.width)
      b == scoreUncompressed(reversePredictor(unshuffle(inflated)), linesInBlock,
                             arg.file.channels, arg.file.width)
  IN IF b > a THEN "unshuffle-then-predictor" ELSE "predictor-then-unshuffle"

C23_Step ==
  /\ (ret = NoCall /\ ret' # NoCall /\ ~ret'.done) => ret'.zipTransform = "null"
  /\ (ret # NoCall /\ ~ret.done /\ ret' # NoCall) =>
       /\ ret.zipTransform # "null" => ret'.zipTransform = ret.zipTransform
       /\ (ret.zipTransform = "null" /\ ret'.zipTransform # "null") =>
            /\ \A i \in 1..Len(ret.orders) : ret.orders[i] = "skipped"
            /\ ret'.zipTransform = HigherScore(ret.blockIndex)
       /\ (Len(ret'.orders) > Len(ret.orders) /\ arg.file.compression # 0
             /\ ret'.orders[Len(ret'.orders)] # "skipped") =>
            ret'.orders[Len(ret'.orders)] = ret'.zipTransform

\* C23: within one call the order of the two zip transforms is decided
\* once, on the first compressed block that is processed, by the higher
\* plausibility score; every later block of the call is undone in that
\* order, and a call starts undecided whatever the call before it chose.
C23_ZipOrderDecidedOnce == [][C23_Step]_vars

\* A call after one that chose unshuffle-then-predictor has decided on
\* predictor-then-unshuffle on its block 0 and has kept it for block 1,
\* which alone would score higher in the other order.
C23_Witness ==
  /\ ret # NoCall /\ ret.done /\ ret.outcome.ok
  /\ arg.earlier = "unshuffle-then-predictor"
  /\ arg.file.compression = 2 /\ arg.skipped = {}
  /\ ret.orders = <<"predictor-then-unshuffle", "predictor-then-unshuffle">>
  /\ HigherScore(1) = "unshuffle-then-predictor"

\* C24 as stated: the pixel data of a block are laid out channel after
\* channel (all the lines of channel 0, then all the lines of channel 1,
\* ...), and the decoder takes the value of channel k, column x, line l of
\* the block from that position.
C24_BlockReadChannelMajor ==
  (ret # NoCall /\ ret.done /\ arg.fault = "none" /\ arg.skipped = {}) =>
    /\ ret.outcome.ok
    /\ \A o \in 1..Len(ret.out) : ret.outcome.value.data[o] = ChannelMajorValue(o)

\* C24, amended: the pixel data of a block are laid out line after line,
\* and within a line channel after channel; the decoder takes the value of
\* channel k, column x, line l of the block from
\* l * bytesPerLine + channelBaseWithinLine[k] + x * pixelByteSize.
C24_BlockReadLineMajor ==
  (ret # NoCall /\ ret.done /\ arg.fault = "none" /\ arg.skipped = {}) =>
    /\ ret.outcome.ok
    /\ \A o \in 1..Len(ret.out) : ret.outcome.value.data[o] = LineMajorValue(o)

\* A block of two lines of three half channels has been decoded at full
\* size: the blue value of line 1, column 0 differs between the two layouts.
C24_Witness ==
  /\ ret # NoCall /\ ret.done /\ ret.outcome.ok
  /\ arg.fault = "none" /\ arg.skipped = {}
  /\ arg.file.compression = 3 /\ Len(arg.file.channels) = 3
  /\ arg.decodeWidth = 2 /\ arg.decodeHeight = 2
  /\ ret.outcome.value.data[9] = LineMajorValue(9)
  /\ LineMajorValue(9) # ChannelMajorValue(9)

\* The number of lines a block of the file holds, by its compression byte
\* (0 none, 2 zips, 3 zip).
C25_BlockLines == IF arg.file.compression = 3 THEN 16 ELSE 1

\* C25: a block holds 16 lines for zip and 1 line for zips and none, the
\* last block min(blockLines, height - y0) lines.  A block whose stored or
\* inflated byte count is not bytesPerLine * linesInBlock, or whose
\* declared size runs past the end of the file, ends the call with
\* "Invalid EXR chunk size" and no result, after the blocks before it were
\* accepted; a file whose blocks all have the right size is decoded to its
\* end.
C25_BlockSizeChecked ==
  LET blocks == (Len(arg.file.rows) + C25_BlockLines - 1) \div C25_BlockLines
  IN ret # NoCall =>
       /\ ~ret.done => ret.blocks = blocks
       /\ ret.done =>
            IF arg.fault = "none"
              THEN ret.outcome.ok /\ ret.blockIndex = blocks
              ELSE ret.outcome = Throw("Invalid EXR chunk size")
                     /\ ret.blockIndex = blocks - 1

\* The zip file of 17 lines, whose second block holds one line, has ended
\* with the error on that block, which inflates to one byte less than a
\* line.
C25_Witness ==
  /\ ret # NoCall /\ ret.done
  /\ arg.file.compression = 3 /\ Len(arg.file.rows) = 17 /\ arg.fault = "inflated"
  /\ ret.blockIndex = 1
  /\ ret.outcome = Throw("Invalid EXR chunk size")

\* ---- The viewer component (ViewerSpec) ----

C27_Step ==
  LET issued == ret'.pending \ ret.pending
  IN /\ ret'.settings # ret.settings =>
          /\ issued = {}
          /\ (ret.isReady /\ ret.textureKind = "rgb16f") =>
               ret'.updates = ret.updates /\ ret'.rafId
          /\ (ret.isReady /\ ret.textureKind = "rgba8") =>
               /\ Len(ret'.updates) = Len(ret.updates) + 1
               /\ ret'.updates[Len(ret'.updates)].pc = "scheduled"
     /\ \A w \in 1..Len(ret.updates) :
          (ret.updates[w].pc = "scheduled" /\ ret'.updates[w].pc # "scheduled") =>
            issued = {[owner |-> "update", of |-> w, decoder |-> ret'.decoder,
                       kind |-> "rgba8", quality |-> "low", settings |-> ret.settings]}
     /\ \A r \in issued :
          r.owner = "update" =>
            ret.updates[r.of].pc = "scheduled" /\ ret'.updates[r.of].pc = "decoding"

\* C27: once a texture is displayed, a change of exposure, tone mapping or
\* gamma submits no decode request while the displayed texture is Rgb16f:
\* it only schedules a re-render.  While the displayed texture is Rgba8
\* each change schedules one run of the watcher, and each run submits
\* exactly one decode request, with target Rgba8, quality low and the
\* exposure, tone mapping and gamma that are current when it is submitted.
C27_ToneChangeDecodesOnlyRgba8 == [][C27_Step]_vars

\* Without WebGL2 the settings were changed twice while an Rgba8 texture
\* was displayed; both runs of the watcher have submitted their request,
\* one before and one after the second change.
C27_Witness ==
  /\ ~arg.webgl2 /\ ret.isReady /\ ret.textureKind = "rgba8"
  /\ ret.changes = 2 /\ Len(ret.updates) = 2
  /\ \E r, q \in ret.pending :
       /\ r.owner = "update" /\ q.owner = "update" /\ r.of = 1 /\ q.of = 2
       /\ r.settings # q.settings
       /\ q.settings = ret.settings

\* C29: when loadPanorama is started again while an earlier run waits for
\* its decode, the earlier run never leaves its error on the newer run:
\* whenever isReady is set hasError is false, and every result that
\* loadPanorama or its refinement uploads goes to the renderer that its
\* own run created.
C29_EarlierRunLeavesNoError ==
  /\ ret.isReady => ~ret.hasError
  /\ \A u \in ret.uploads :
       u.owner \in {"low", "fallback", "refine"} => u.renderer = ret.runs[u.of].renderer

\* ---- The task queue (QueueSpec) ----

C30_Step ==
  \A t \in 1..Len(ret.tasks) :
    /\ (ret.tasks[t].status = "pending" /\ ret'.tasks[t].status = "in-stages"
          /\ ret.tasks[t].attempts > 0) =>
         ret.now >= ret.tasks[t].createdAt
    /\ (ret.tasks[t].status = "in-stages"
          /\ ret'.tasks[t].status \in {"pending", "failed"}) =>
         LET attempts == ret'.tasks[t].attempts
             windows == arg.platform = "win32"
                          /\ ret'.last.errorCode \in {"EPERM", "EACCES", "EBUSY"}
             d == Min(1000 * 2 ^ (attempts - 1), IF windows THEN 60000 ELSE 30000)
         IN /\ attempts = ret.tasks[t].attempts + 1
            /\ ret'.tasks[t].status = "pending" => ret'.tasks[t].createdAt = ret.now + d
            /\ (~ret'.last.isRetryable \/ attempts >= ret'.tasks[t].maxAttempts) =>
                 ret'.tasks[t].status = "failed"

\* C30: when markTaskFailed puts a retryable task back to pending with the
\* retry delay d = min(1000 * 2^(attempts - 1), 30000) ms (60000 for a
\* Windows file-access error), the task is due d after the failure and
\* getNextTask does not hand it out before that, even when it is the only
\* pending task; a task whose error is not retryable or whose attempts have
\* reached its maxAttempts is set to failed, never to pending.
C30_RetryWaitsForItsDelay == [][C30_Step]_vars

====
